---- MODULE Spec2Model ----
(***************************************************************************)
(* Model of the chart-generation service: the fallback chain of            *)
(* ChartController (submitBirthData / submitBirthDataGet) over the four    *)
(* acquisition services, and the browser life cycle of                     *)
(* JovianArchivePuppeteerService.  The router builds ONE ChartController,  *)
(* so every request runs against the same four service instances; the     *)
(* Puppeteer service keeps its browser, page and lastCapturedJson in       *)
(* instance fields, which are therefore single variables here.             *)
(***************************************************************************)
EXTENDS Naturals, Integers, Sequences, FiniteSets, TLC

\* Number of HTTP requests that may be in flight together.
NumRequests == 2

Requests == 1 .. NumRequests

\* A browser is identified by the request whose call launched it; 0 is null.
Null == 0
NullPage == [b |-> 0, by |-> 0]
NoJson == [for |-> 0, chartlike |-> FALSE, props |-> 0]
\* JSON bodies a response can carry: one that does not look like a chart,
\* and chart-like ones without and with properties in a known place.
SampleJson == {[chartlike |-> FALSE, props |-> 0],
               [chartlike |-> TRUE, props |-> 0],
               [chartlike |-> TRUE, props |-> 1]}

\* No function is being evaluated.
NoCall == [fn |-> "none"]

Strategies == {"maia", "puppeteer", "axios", "fetch"}

\* Order in which the handlers call the services
\* (chartController.js 28, 53, 92, 129 and 209, 234, 273, 302).
PriorityOrder == <<"maia", "puppeteer", "axios", "fetch">>

VARIABLES
    req,               \* per request: the handler's frame and what it has done
    browser,           \* JovianArchivePuppeteerService.browser
    page,              \* JovianArchivePuppeteerService.page
    lastCapturedJson,  \* JovianArchivePuppeteerService.lastCapturedJson
    listeners,         \* <<page, request>>: response listeners registered
    openBrowsers,      \* browsers launched and not yet closed
    calculatorToken,   \* MaiaMechanicsApiService.calculatorToken is set
    call,              \* one call of a function without side effects
    timedOut           \* requests whose overall timeout has fired

vars == <<req, browser, page, lastCapturedJson, listeners, openBrowsers,
          calculatorToken, call, timedOut>>

-----------------------------------------------------------------------------
(* Values exchanged between the services and the controller                *)

\* ChartResult as built by parseChartResponse: the sizes of its collections.
ChartResult(p, d, s) == [props |-> p, design |-> d, personality |-> s]
EmptyResult == ChartResult(0, 0, 0)
NoData == ChartResult(0, 0, 0)

\* Results a results page can be parsed into.
SampleCharts ==
    {EmptyResult, ChartResult(1, 0, 0), ChartResult(0, 1, 0), ChartResult(0, 0, 1)}

\* Bodies the calculation API can answer with: whether chart / meta are
\* present and whether chart.planets and chart.gates can be iterated.
MaiaData(c, m, w) == [chart |-> c, meta |-> m, wellFormed |-> w]
SampleApiData ==
    {MaiaData(FALSE, FALSE, TRUE), MaiaData(TRUE, TRUE, TRUE),
     MaiaData(FALSE, TRUE, TRUE), MaiaData(TRUE, TRUE, FALSE)}

\* What a submitBirthData call produced.
NoOutcome == [kind |-> "none"]
Failure == [kind |-> "failure"]
Success(d) == [kind |-> "success", data |-> d]
Threw == [kind |-> "threw"]

-----------------------------------------------------------------------------
(* ChartController: the frame of one handler invocation                    *)

NoOutcomes == [s \in Strategies |-> NoOutcome]

\* A request nobody has sent yet.
IdleRequest ==
    [pc |-> "idle", method |-> "none", invoked |-> <<>>, inflight |-> {},
     outcome |-> NoOutcomes, responses |-> <<>>, launched |-> FALSE,
     closing |-> Null, maiaPosts |-> 0]

\* Where a handler waits while service s runs: the first await of s.
StartPc(s) ==
    CASE s = "maia" -> "in_maia"
      [] s = "puppeteer" -> "p_launch"
      [] s = "axios" -> "in_axios"
      [] s = "fetch" -> "in_fetch"

\* NextStrategy with the axios fallback left out.
NextStrategySkipsAxios(s) ==
    CASE s = "maia" -> "puppeteer"
      [] s = "puppeteer" -> "fetch"
      [] s = "axios" -> "fetch"

\* The service a handler turns to when service s gave nothing it returns.
NextStrategy(s) ==
    CASE s = "maia" -> "puppeteer"
      [] s = "puppeteer" -> "axios"
      [] s = "axios" -> "fetch"

\* `await this.<service>.submitBirthData(birthData)`: the call is made.
Invoke(q, s) ==
    [q EXCEPT !.invoked = Append(@, s), !.inflight = @ \cup {s},
              !.pc = StartPc(s)]

\* The awaited call of s settles with outcome out.
Complete(q, s, out) ==
    [q EXCEPT !.inflight = @ \ {s}, !.outcome[s] = out]

\* `return res.status(..).json(..)`.
Respond(q, resp) ==
    [q EXCEPT !.responses = Append(@, resp), !.pc = "done"]

\* The handler's function body ends without any res.json call.
ReturnSilently(q) == [q EXCEPT !.pc = "done"]

\* hasChartData looking at chart_properties alone.
HasChartDataPropertiesOnly(d) == d.props > 0

\* hasChartData of the handlers.
HasChartData(d) == d.props > 0 \/ d.design > 0 \/ d.personality > 0

\* `maia.success && maia.data && (maia.data.chart || maia.data.meta)`.
MaiaHasData(out) ==
    out.kind = "success" /\ (out.data.chart \/ out.data.meta)

Ok200(src, d) ==
    [status |-> 200, success |-> TRUE, source |-> src, reasons |-> {},
     data |-> d]

\* The 500 of the handlers' outer catch.
CaughtError ==
    [status |-> 500, success |-> FALSE, source |-> "catch", reasons |-> {},
     data |-> NoData]

\* 'Failed to extract chart data from website response'.
ExtractFailed ==
    [status |-> 500, success |-> FALSE, source |-> "puppeteer",
     reasons |-> {}, data |-> NoData]

\* 'Failed to generate chart with all three methods': error, fallbackError
\* and fetchError hold .error of the three results, undefined on a success.
AllFailed(q) ==
    [status |-> 500, success |-> FALSE, source |-> "all",
     reasons |-> {s \in {"puppeteer", "axios", "fetch"} :
                      q.outcome[s].kind = "failure"},
     data |-> NoData]

\* The handler resumes after the Maia call.  transformToReadableFormat
\* throws on a body it cannot iterate; the inner catch swallows that.
AfterMaia(q) ==
    LET out == q.outcome["maia"] IN
    IF MaiaHasData(out) /\ out.data.wellFormed
    THEN Respond(q, Ok200("maia", NoData))
    ELSE Invoke(q, NextStrategy("maia"))

\* The handler resumes after the Puppeteer call (same code in both handlers).
AfterPuppeteer(q) ==
    LET out == q.outcome["puppeteer"] IN
    CASE out.kind = "threw" -> Respond(q, CaughtError)
      [] out.kind = "success" ->
            IF HasChartData(out.data)
            THEN Respond(q, Ok200("puppeteer", out.data))
            ELSE Respond(q, ExtractFailed)
      [] out.kind = "failure" -> Invoke(q, NextStrategy("puppeteer"))

\* POST checks hasChartData of the axios result, GET does not.
AfterAxios(q) ==
    LET out == q.outcome["axios"] IN
    CASE out.kind = "threw" -> Respond(q, CaughtError)
      [] out.kind = "success" ->
            IF q.method = "GET" \/ HasChartData(out.data)
            THEN Respond(q, Ok200("axios", out.data))
            ELSE Invoke(q, NextStrategy("axios"))
      [] out.kind = "failure" -> Invoke(q, NextStrategy("axios"))

\* POST: a fetch success without chart data reaches neither return.
AfterFetch(q) ==
    LET out == q.outcome["fetch"] IN
    CASE out.kind = "threw" -> Respond(q, CaughtError)
      [] out.kind = "success" ->
            IF q.method = "GET" \/ HasChartData(out.data)
            THEN Respond(q, Ok200("fetch", out.data))
            ELSE ReturnSilently(q)
      [] out.kind = "failure" -> Respond(q, AllFailed(q))

-----------------------------------------------------------------------------
(* The three services without instance state: what one call returns, given *)
(* what the network answers                                                *)

\* MaiaMechanicsApiService.submitBirthData: the whole body is in one try;
\* a missing token throws before axios.post, a non-2xx answer or a network
\* error throws from it, and the catch returns {success: false, error}.
MaiaSubmitBirthData(token, postOk, apiData) ==
    IF ~token THEN Failure
    ELSE IF ~postOk THEN Failure
    ELSE Success(apiData)

\* The number of axios.post calls with the token check after the request.
MaiaPostsBeforeTokenCheck(token) == 1

\* The number of axios.post calls one MaiaMechanicsApiService.submitBirthData
\* makes: the throw of line 13 leaves the try before the only call.
MaiaNetworkCalls(token) == IF ~token THEN 0 ELSE 1

\* JovianArchiveService.parseChartResponse: no .chart_results_container
\* gives the empty result, otherwise whatever the extractors find.
AxiosParseChartResponse(hasContainer, found) ==
    IF ~hasContainer THEN EmptyResult ELSE found

\* JovianArchiveService.submitBirthData: getFormPage and submitForm rethrow
\* into the catch; extractAntiForgeryToken falls back to '' and never throws.
AxiosSubmitBirthData(getOk, postOk, hasContainer, found) ==
    IF ~getOk THEN Failure
    ELSE IF ~postOk THEN Failure
    ELSE Success(AxiosParseChartResponse(hasContainer, found))

\* JovianArchiveFetchService.submitBirthData: a page without token throws,
\* so does a non-ok answer and an error page ('Oops, we have a problem').
FetchSubmitBirthData(getOk, hasToken, postOk, errorPage, found) ==
    IF ~getOk THEN Failure
    ELSE IF ~hasToken THEN Failure
    ELSE IF ~postOk THEN Failure
    ELSE IF errorPage THEN Failure
    ELSE Success(found)

-----------------------------------------------------------------------------
(* Requests arrive                                                         *)

\* Requests are numbered in the order in which they arrive.
MayArrive(r) ==
    /\ req[r].pc = "idle"
    /\ \A o \in Requests : o < r => req[o].pc # "idle"

PuppeteerUnchanged ==
    UNCHANGED <<browser, page, lastCapturedJson, listeners, openBrowsers>>

\* No handler writes the token, and no handler keeps a result of the
\* functions without side effects outside its own frame.
ServicesUnchanged == UNCHANGED <<calculatorToken, call, timedOut>>

\* router.post(..): ChartController.submitBirthData up to its first await.
submitBirthData(r) ==
    /\ MayArrive(r)
    /\ req' = [req EXCEPT ![r] = Invoke([@ EXCEPT !.method = "POST"], "maia")]
    /\ PuppeteerUnchanged
    /\ ServicesUnchanged

\* router.get(..): ChartController.submitBirthDataGet up to its first await.
submitBirthDataGet(r) ==
    /\ MayArrive(r)
    /\ req' = [req EXCEPT ![r] = Invoke([@ EXCEPT !.method = "GET"], "maia")]
    /\ PuppeteerUnchanged
    /\ ServicesUnchanged

\* The Maia call settles and the handler runs on to its next await.
MaiaReturns(r) ==
    /\ req[r].pc = "in_maia"
    /\ \E out \in {MaiaSubmitBirthData(calculatorToken, postOk, apiData) :
                      postOk \in BOOLEAN, apiData \in SampleApiData} :
         req' = [req EXCEPT ![r] =
                    AfterMaia(Complete(
                        [@ EXCEPT !.maiaPosts =
                                      MaiaNetworkCalls(calculatorToken)],
                        "maia", out))]
    /\ PuppeteerUnchanged
    /\ ServicesUnchanged

\* The axios call settles and the handler runs on.
AxiosReturns(r) ==
    /\ req[r].pc = "in_axios"
    /\ \E out \in {AxiosSubmitBirthData(getOk, postOk, hasContainer, found) :
                      getOk \in BOOLEAN, postOk \in BOOLEAN,
                      hasContainer \in BOOLEAN, found \in SampleCharts} :
         req' = [req EXCEPT ![r] = AfterAxios(Complete(@, "axios", out))]
    /\ PuppeteerUnchanged
    /\ ServicesUnchanged

\* The node-fetch call settles and the handler runs on.
FetchReturns(r) ==
    /\ req[r].pc = "in_fetch"
    /\ \E out \in {FetchSubmitBirthData(getOk, hasToken, postOk, errorPage,
                                         found) :
                      getOk \in BOOLEAN, hasToken \in BOOLEAN,
                      postOk \in BOOLEAN, errorPage \in BOOLEAN,
                      found \in SampleCharts} :
         req' = [req EXCEPT ![r] = AfterFetch(Complete(@, "fetch", out))]
    /\ PuppeteerUnchanged
    /\ ServicesUnchanged

-----------------------------------------------------------------------------
(* JovianArchivePuppeteerService: one submitBirthData call, await by await *)

\* A call on this.page succeeds only on a page of a browser still open;
\* on null it is a TypeError, on a closed browser a protocol error.
PageUsable(p) == p # NullPage /\ p.b \in openBrowsers

\* ExitTry with `this.closeBrowser()` not awaited: the call returns its
\* result while browser.close() is still pending.
ExitTryCloseNotAwaited(q, out) ==
    IF browser # Null
    THEN AfterPuppeteer([q EXCEPT !.outcome["puppeteer"] = out,
                                  !.closing = browser])
    ELSE AfterPuppeteer(Complete(q, "puppeteer", out))

\* The try block is left with result out (the return or the catch), and the
\* finally runs closeBrowser up to its await: `if (this.browser)` reads the
\* field as it is now and calls close() on that browser.
ExitTry(q, out) ==
    IF browser # Null
    THEN [q EXCEPT !.outcome["puppeteer"] = out, !.closing = browser,
                   !.pc = "p_closing"]
    ELSE AfterPuppeteer(Complete(q, "puppeteer", out))

\* launchBrowser, `this.browser = await puppeteer.launch(launchOptions)`.
launchBrowser(r) ==
    /\ req[r].pc = "p_launch"
    /\ \/ /\ browser' = r
          /\ openBrowsers' = openBrowsers \cup {r}
          /\ req' = [req EXCEPT ![r] = [@ EXCEPT !.launched = TRUE,
                                                 !.pc = "p_newpage"]]
          /\ UNCHANGED <<page, lastCapturedJson, listeners>>
       \/ /\ req' = [req EXCEPT ![r] = ExitTry(@, Failure)]
          /\ PuppeteerUnchanged
    /\ ServicesUnchanged

\* launchBrowser, `this.page = await this.browser.newPage()` and the three
\* settings made on this.page.
newPage(r) ==
    /\ req[r].pc = "p_newpage"
    /\ \/ /\ browser \in openBrowsers
          /\ page' = [b |-> browser, by |-> r]
          /\ req' = [req EXCEPT ![r] = [@ EXCEPT !.pc = "p_goto"]]
          /\ UNCHANGED <<browser, lastCapturedJson, listeners, openBrowsers>>
       \/ /\ req' = [req EXCEPT ![r] = ExitTry(@, Failure)]
          /\ PuppeteerUnchanged
    /\ ServicesUnchanged

\* navigateToForm: page.goto and waitForSelector('form'); a failure of the
\* captcha solver is caught inside.
navigateToForm(r) ==
    /\ req[r].pc = "p_goto"
    /\ \/ /\ PageUsable(page)
          /\ req' = [req EXCEPT ![r] = [@ EXCEPT !.pc = "p_fill"]]
       \/ req' = [req EXCEPT ![r] = ExitTry(@, Failure)]
    /\ PuppeteerUnchanged
    /\ ServicesUnchanged

\* fillAndSubmitForm up to the filled form: the buffer is reset, the response
\* listener is put on this.page, the legacy or the new layout is filled.
fillForm(r) ==
    /\ req[r].pc = "p_fill"
    /\ lastCapturedJson' = NoJson
    /\ \/ /\ PageUsable(page)
          /\ listeners' = listeners \cup {<<page, r>>}
          /\ req' = [req EXCEPT ![r] = [@ EXCEPT !.pc = "p_submit"]]
       \/ /\ listeners' = IF page = NullPage THEN listeners
                          ELSE listeners \cup {<<page, r>>}
          /\ req' = [req EXCEPT ![r] = ExitTry(@, Failure)]
    /\ UNCHANGED <<browser, page, openBrowsers>>
    /\ ServicesUnchanged

\* What the response listeners may have stored while the form was
\* submitted on page p by request r: nothing, or a JSON body that does or
\* does not look like a chart, with or without properties in it.
Captured(p, r) ==
    IF \E l \in listeners : l[1] = p
    THEN {lastCapturedJson} \cup
         {[for |-> r, chartlike |-> j.chartlike, props |-> j.props] :
              j \in SampleJson}
    ELSE {lastCapturedJson}

\* fillAndSubmitForm, the submission: form.submit(), waitForNavigation, the
\* check for validation errors.
submitForm(r) ==
    /\ req[r].pc = "p_submit"
    /\ \/ /\ PageUsable(page)
          /\ \E j \in Captured(page, r) : lastCapturedJson' = j
          /\ \/ req' = [req EXCEPT ![r] = [@ EXCEPT !.pc = "p_parse"]]
             \/ req' = [req EXCEPT ![r] = ExitTry(@, Failure)]
       \/ /\ ~PageUsable(page)
          /\ UNCHANGED lastCapturedJson
          /\ req' = [req EXCEPT ![r] = ExitTry(@, Failure)]
    /\ UNCHANGED <<browser, page, listeners, openBrowsers>>
    /\ ServicesUnchanged

\* transformCapturedJson: null unless the body mentions strategy, authority
\* or profile; otherwise the properties found, and no activation lists.
transformCapturedJson(json) ==
    IF ~json.chartlike THEN [null |-> TRUE, data |-> EmptyResult]
    ELSE [null |-> FALSE, data |-> ChartResult(json.props, 0, 0)]

\* JovianArchivePuppeteerService.parseChartResponse on a usable page: an
\* 'Oops' heading throws, the /Search url gives the empty result.
parseChartResponse(errorPage, searchPage, found) ==
    IF errorPage THEN Failure
    ELSE IF searchPage THEN Success(EmptyResult)
    ELSE Success(found)

\* fillAndSubmitForm, the end: the captured JSON pre-empts the page, else
\* the page is parsed; then this.page.off(..) and the return.
parseResponse(r) ==
    /\ req[r].pc = "p_parse"
    /\ LET t == IF lastCapturedJson # NoJson
                THEN transformCapturedJson(lastCapturedJson)
                ELSE [null |-> TRUE, data |-> EmptyResult]
       IN  \E fromPage \in {parseChartResponse(errorPage, searchPage, found) :
                              errorPage \in BOOLEAN, searchPage \in BOOLEAN,
                              found \in SampleCharts} :
             LET parsed == IF ~t.null THEN Success(t.data)
                           ELSE IF PageUsable(page) THEN fromPage
                           ELSE Failure
                 out == IF page = NullPage THEN Failure ELSE parsed
             IN  /\ listeners' = IF out.kind = "success"
                                 THEN listeners \ {<<page, r>>}
                                 ELSE listeners
                 /\ req' = [req EXCEPT ![r] = ExitTry(@, out)]
    /\ UNCHANGED <<browser, page, lastCapturedJson, openBrowsers>>
    /\ ServicesUnchanged

\* closeBrowser after its await: browser.close() resolved and both fields
\* are set to null, or it rejected and the rejection leaves the finally.
closeBrowser(r) ==
    /\ req[r].pc = "p_closing"
    /\ LET b == req[r].closing
           q == [req[r] EXCEPT !.closing = Null]
       IN  \/ /\ openBrowsers' = openBrowsers \ {b}
              /\ listeners' = {l \in listeners : l[1].b # b}
              /\ browser' = Null
              /\ page' = NullPage
              /\ req' = [req EXCEPT ![r] =
                           AfterPuppeteer(Complete(q, "puppeteer",
                                                   q.outcome["puppeteer"]))]
           \/ /\ \E gone \in BOOLEAN :
                    /\ openBrowsers' = IF gone THEN openBrowsers \ {b}
                                       ELSE openBrowsers
                    /\ listeners' = IF gone
                                    THEN {l \in listeners : l[1].b # b}
                                    ELSE listeners
              /\ UNCHANGED <<browser, page>>
              /\ req' = [req EXCEPT ![r] =
                           AfterPuppeteer(Complete(q, "puppeteer", Threw))]
    /\ UNCHANGED lastCapturedJson
    /\ ServicesUnchanged

-----------------------------------------------------------------------------
(* The service as a whole                                                  *)

\* The controller and its four services right after construction.
Constructed ==
    /\ req = [r \in Requests |-> IdleRequest]
    /\ browser = Null
    /\ page = NullPage
    /\ lastCapturedJson = NoJson
    /\ listeners = {}
    /\ openBrowsers = {}
    /\ timedOut = {}

\* The environment decides whether MAIA_CALCULATOR_TOKEN is set.
Init ==
    /\ Constructed
    /\ calculatorToken \in BOOLEAN
    /\ call = NoCall

Next ==
    \E r \in Requests :
        \/ submitBirthData(r)
        \/ submitBirthDataGet(r)
        \/ MaiaReturns(r)
        \/ launchBrowser(r)
        \/ newPage(r)
        \/ navigateToForm(r)
        \/ fillForm(r)
        \/ submitForm(r)
        \/ parseResponse(r)
        \/ closeBrowser(r)
        \/ AxiosReturns(r)
        \/ FetchReturns(r)

Spec == Init /\ [][Next]_vars

-----------------------------------------------------------------------------
(* One request whose overall timeout fires                                 *)

\* The overall timeout of request r fires while its handler runs: the
\* client, or a proxy in front of the server, gives the request up and the
\* connection closes.  app.js sets no timeout on the server or the
\* response, the handlers and services hold no AbortController and listen
\* for no 'close' or 'aborted' event: no code runs, and the handler's frame
\* and the services are as they were.
requestTimeout(r) ==
    /\ req[r].pc \notin {"idle", "done"}
    /\ r \notin timedOut
    /\ timedOut' = timedOut \cup {r}
    /\ UNCHANGED <<req, browser, page, lastCapturedJson, listeners,
                   openBrowsers, calculatorToken, call>>

\* Only the first request is sent.
NextTimeout ==
    \/ submitBirthData(1)
    \/ submitBirthDataGet(1)
    \/ MaiaReturns(1)
    \/ launchBrowser(1)
    \/ newPage(1)
    \/ navigateToForm(1)
    \/ fillForm(1)
    \/ submitForm(1)
    \/ parseResponse(1)
    \/ closeBrowser(1)
    \/ AxiosReturns(1)
    \/ FetchReturns(1)
    \/ requestTimeout(1)

SpecTimeout == Init /\ [][NextTimeout]_vars

-----------------------------------------------------------------------------
(* Text.  A string is the sequence of its characters, so that trimming,    *)
(* case mapping, prefix tests and formatting are computed on characters.   *)

DigitChars == <<"0", "1", "2", "3", "4", "5", "6", "7", "8", "9">>

RECURSIVE Decimal(_)
\* String(n) of a non-negative integer, as a template literal renders it.
Decimal(n) ==
    IF n < 10 THEN <<DigitChars[n + 1]>>
    ELSE Decimal(n \div 10) \o <<DigitChars[(n % 10) + 1]>>

-----------------------------------------------------------------------------
(* ChartController.transformToReadableFormat: the two lookups of the       *)
(* properties block                                                        *)

\* Largest type code and largest profile number the API is taken to send.
MaxTypeCode == 5
MaxProfile == 120

typeMap ==
    [t \in 0 .. 4 |->
        CASE t = 0 -> "Generator"
          [] t = 1 -> "Manifestor"
          [] t = 2 -> "Projector"
          [] t = 3 -> "Reflector"
          [] t = 4 -> "Manifesting Generator"]

\* `typeMap[chart.type] || 'Unknown'`.
TypeName(t) == IF t \in DOMAIN typeMap THEN typeMap[t] ELSE "Unknown"

\* formatProfile with the two digits the other way round.
formatProfileSwapped(profile) ==
    IF profile.isNumber
    THEN Decimal(profile.n % 10) \o <<"/">> \o Decimal(profile.n \div 10)
    ELSE profile.text

\* formatProfile: a number becomes `${floor(profile / 10)}/${profile % 10}`,
\* anything else is returned as it is.
formatProfile(profile) ==
    IF profile.isNumber
    THEN Decimal(profile.n \div 10) \o <<"/">> \o Decimal(profile.n % 10)
    ELSE profile.text

NumberProfile(n) == [isNumber |-> TRUE, n |-> n, text |-> <<>>]
TextProfile(t) == [isNumber |-> FALSE, n |-> 0, text |-> t]

\* chart.type and chart.profile as the API may send them.
SampleChartFields ==
    {[type |-> t, profile |-> pr] :
        t \in 0 .. MaxTypeCode,
        pr \in {NumberProfile(n) : n \in 0 .. MaxProfile}
                \cup {TextProfile(<<"2", "/", "4">>)}}

\* The handler's frame, the services' fields: a function without side
\* effects touches none of them.
ControllerUnchanged ==
    UNCHANGED <<req, browser, page, lastCapturedJson, listeners,
                openBrowsers, calculatorToken, timedOut>>

\* A call that has not returned yet.
Pending(fn, args) == [fn |-> fn, args |-> args, done |-> FALSE, out |-> 0]

Return(c, out) == [c EXCEPT !.done = TRUE, !.out = out]

Called(fn) == call.fn = fn /\ ~call.done
Returns(fn) == call.fn = fn /\ call.done

\* properties.type and properties.profile of transformToReadableFormat.
transformToReadableFormat ==
    /\ Called("transformToReadableFormat")
    /\ call' = Return(call, [type |-> TypeName(call.args.type),
                             profile |-> formatProfile(call.args.profile)])
    /\ ControllerUnchanged

-----------------------------------------------------------------------------
(* The request body, the validation middleware and the router              *)

\* One field of a JSON body: whether it is there, and its number (for a
\* string field, its length).
Field(given, v) == [given |-> given, v |-> v]
Absent == Field(FALSE, 0)

\* `x || ..` on a field: undefined, 0 and '' are falsy.
Truthy(f) == f.given /\ f.v # 0

\* Bodies a client may post: fields missing, at and beyond their limits.
SampleBodies ==
    [name : {Absent, Field(TRUE, 0), Field(TRUE, 4)},
     day : {Absent, Field(TRUE, 0), Field(TRUE, 1), Field(TRUE, 31),
            Field(TRUE, 32)},
     month : {Field(TRUE, 12), Field(TRUE, 13)},
     year : {Field(TRUE, 1900), Field(TRUE, 2101)},
     hour : {Field(TRUE, 23), Field(TRUE, 24)},
     minute : {Field(TRUE, 59), Field(TRUE, 60)},
     country : {Field(TRUE, 255), Field(TRUE, 256)},
     city : {Absent, Field(TRUE, 8)}]

\* Joi.string().required().max(255): '' is rejected as empty.
StringOk(f) == f.given /\ f.v >= 1 /\ f.v <= 255

\* Joi.number().integer().min(lo).max(hi).required().
NumberOk(f, lo, hi) == f.given /\ f.v >= lo /\ f.v <= hi

\* birthDataSchema.validate(body) reports no error.
birthDataSchema(body) ==
    /\ StringOk(body.name)
    /\ NumberOk(body.day, 1, 31)
    /\ NumberOk(body.month, 1, 12)
    /\ NumberOk(body.year, 1900, 2100)
    /\ NumberOk(body.hour, 0, 23)
    /\ NumberOk(body.minute, 0, 59)
    /\ StringOk(body.country)
    /\ StringOk(body.city)

\* What a middleware or handler of a route does with the request.
Answered(status, message) ==
    [status |-> status, message |-> message, handler |-> "none"]
Entered(handler) == [status |-> 0, message |-> "", handler |-> handler]

\* validateBirthData / validateQueryParams: 422 on an error, else next().
validateBirthData(body) ==
    IF ~birthDataSchema(body) THEN Answered(422, "Validation failed")
    ELSE Entered("next")

\* router.post / router.get of chartRoutes.js: the functions each route
\* was registered with.  The two validators are imported and not used.
Routes ==
    [method : {"POST", "GET"}, path : {"/generate-chart", "/submit-birth-data"}]

RouteStack(route) ==
    IF route.method = "POST" THEN <<"submitBirthData">>
    ELSE <<"submitBirthDataGet">>

RECURSIVE Dispatch(_, _)
\* express runs the functions of a route in order until one answers
\* without calling next(); a controller method is the end of the stack.
Dispatch(stack, body) ==
    IF stack = <<>> THEN Answered(404, "Route not found")
    ELSE IF Head(stack) \in {"validateBirthData", "validateQueryParams"}
         THEN IF validateBirthData(body).handler = "next"
              THEN Dispatch(Tail(stack), body)
              ELSE validateBirthData(body)
         ELSE Entered(Head(stack))

\* A request is routed: either a middleware answers it or a handler of
\* the controller is entered (which calls the Maia service at once).
route ==
    /\ Called("route")
    /\ call' = Return(call, Dispatch(RouteStack(call.args.route),
                                     call.args.body))
    /\ ControllerUnchanged

-----------------------------------------------------------------------------
(* birth_data of a 200 response                                            *)

\* meta of a calculation API answer, as far as birth_data is built from it.
SampleMeta ==
    {[name |-> Absent, timeLocal |-> Absent, timeUtc |-> Absent,
      city |-> Absent, country |-> Absent],
     [name |-> Field(TRUE, 5), timeLocal |-> Field(TRUE, 20),
      timeUtc |-> Field(TRUE, 20), city |-> Field(TRUE, 8),
      country |-> Field(TRUE, 8)]}

\* formatTime: null for no time, else the time in en-US long form.
formatTime(t) ==
    IF ~Truthy(t) THEN [given |-> FALSE, v |-> 0, locale |-> "none"]
    ELSE [given |-> TRUE, v |-> t.v, locale |-> "en-US"]

\* `a || b`.
OrElse(a, b) == IF Truthy(a) THEN a ELSE b

\* birth_data of transformToReadableFormat (the Maia response).
MaiaBirthData(birthData, meta) ==
    [name |-> OrElse(birthData.name, OrElse(meta.name, Field(TRUE, 7))),
     date_local |-> formatTime(meta.timeLocal),
     date_utc |-> formatTime(meta.timeUtc),
     location |-> [city |-> OrElse(birthData.city, meta.city),
                   country |-> OrElse(birthData.country, meta.country)]]

\* data.birth_data of the 200 response built from the result of service s.
ResponseBirthData(s, birthData, meta) ==
    IF s = "maia" THEN MaiaBirthData(birthData, meta) ELSE birthData

\* The handler builds its 200 response from the result of one service.
successResponse ==
    /\ Called("successResponse")
    /\ call' = Return(call, ResponseBirthData(call.args.source,
                                              call.args.birthData,
                                              call.args.meta))
    /\ ControllerUnchanged

-----------------------------------------------------------------------------
(* The field normalizers: getCountrySuggestion, getCitySuggestion and      *)
(* getTimezoneForCity of the three scrapers, getCountryCode and            *)
(* getTimezoneForCity of the Maia service                                  *)

\* The letters toLowerCase and toUpperCase change, with their images.
LowerCaseOf ==
    "A" :> "a" @@ "B" :> "b" @@ "C" :> "c" @@ "D" :> "d" @@ "E" :> "e"
    @@ "F" :> "f" @@ "G" :> "g" @@ "H" :> "h" @@ "I" :> "i" @@ "J" :> "j"
    @@ "K" :> "k" @@ "L" :> "l" @@ "M" :> "m" @@ "N" :> "n" @@ "O" :> "o"
    @@ "P" :> "p" @@ "Q" :> "q" @@ "R" :> "r" @@ "S" :> "s" @@ "T" :> "t"
    @@ "U" :> "u" @@ "V" :> "v" @@ "W" :> "w" @@ "X" :> "x" @@ "Y" :> "y"
    @@ "Z" :> "z"

UpperCaseOf ==
    "a" :> "A" @@ "b" :> "B" @@ "c" :> "C" @@ "d" :> "D" @@ "e" :> "E"
    @@ "f" :> "F" @@ "g" :> "G" @@ "h" :> "H" @@ "i" :> "I" @@ "j" :> "J"
    @@ "k" :> "K" @@ "l" :> "L" @@ "m" :> "M" @@ "n" :> "N" @@ "o" :> "O"
    @@ "p" :> "P" @@ "q" :> "Q" @@ "r" :> "R" @@ "s" :> "S" @@ "t" :> "T"
    @@ "u" :> "U" @@ "v" :> "V" @@ "w" :> "W" @@ "x" :> "X" @@ "y" :> "Y"
    @@ "z" :> "Z"

toLowerCase(t) ==
    [i \in 1 .. Len(t) |->
        IF t[i] \in DOMAIN LowerCaseOf THEN LowerCaseOf[t[i]] ELSE t[i]]

toUpperCase(t) ==
    [i \in 1 .. Len(t) |->
        IF t[i] \in DOMAIN UpperCaseOf THEN UpperCaseOf[t[i]] ELSE t[i]]

RECURSIVE trimStart(_)
trimStart(t) ==
    IF t # <<>> /\ Head(t) = " " THEN trimStart(Tail(t)) ELSE t

RECURSIVE trimEnd(_)
trimEnd(t) ==
    IF t # <<>> /\ t[Len(t)] = " " THEN trimEnd(SubSeq(t, 1, Len(t) - 1))
    ELSE t

trim(t) == trimEnd(trimStart(t))

\* t.startsWith(u) and t.includes(u).
startsWith(t, u) == Len(u) <= Len(t) /\ SubSeq(t, 1, Len(u)) = u
includes(t, u) ==
    \E i \in 0 .. Len(t) - Len(u) : SubSeq(t, i + 1, i + Len(u)) = u

\* `t.charAt(0).toUpperCase() + t.slice(1).toLowerCase()`.
Capitalized(t) ==
    IF t = <<>> THEN <<>>
    ELSE toUpperCase(<<Head(t)>>) \o toLowerCase(Tail(t))

\* The first of a set of row numbers: Object.entries keeps insertion order.
FirstRow(rows) == CHOOSE i \in rows : \A j \in rows : i <= j

\* countryMappings of getCountrySuggestion, the same in the three scrapers.
countryMappings ==
    <<[key |-> <<"p", "a", "k", "i", "s", "t", "a", "n">>,
      value |-> <<"P", "a", "k", "i", "s", "t", "a", "n">>],
     [key |-> <<"p", "a", "k">>,
      value |-> <<"P", "a", "k", "i", "s", "t", "a", "n">>],
     [key |-> <<"u", "s", "a">>,
      value |-> <<"U", "n", "i", "t", "e", "d", " ", "S", "t", "a", "t", "e", "s">>],
     [key |-> <<"u", "n", "i", "t", "e", "d", " ", "s", "t", "a", "t", "e", "s">>,
      value |-> <<"U", "n", "i", "t", "e", "d", " ", "S", "t", "a", "t", "e", "s">>],
     [key |-> <<"u", "k">>,
      value |-> <<"U", "n", "i", "t", "e", "d", " ", "K", "i", "n", "g", "d", "o", "m">>],
     [key |-> <<"u", "n", "i", "t", "e", "d", " ", "k", "i", "n", "g", "d", "o", "m">>,
      value |-> <<"U", "n", "i", "t", "e", "d", " ", "K", "i", "n", "g", "d", "o", "m">>],
     [key |-> <<"c", "a", "n", "a", "d", "a">>,
      value |-> <<"C", "a", "n", "a", "d", "a">>],
     [key |-> <<"a", "u", "s", "t", "r", "a", "l", "i", "a">>,
      value |-> <<"A", "u", "s", "t", "r", "a", "l", "i", "a">>],
     [key |-> <<"i", "n", "d", "i", "a">>,
      value |-> <<"I", "n", "d", "i", "a">>],
     [key |-> <<"c", "h", "i", "n", "a">>,
      value |-> <<"C", "h", "i", "n", "a">>],
     [key |-> <<"j", "a", "p", "a", "n">>,
      value |-> <<"J", "a", "p", "a", "n">>],
     [key |-> <<"g", "e", "r", "m", "a", "n", "y">>,
      value |-> <<"G", "e", "r", "m", "a", "n", "y">>],
     [key |-> <<"f", "r", "a", "n", "c", "e">>,
      value |-> <<"F", "r", "a", "n", "c", "e">>],
     [key |-> <<"i", "t", "a", "l", "y">>,
      value |-> <<"I", "t", "a", "l", "y">>],
     [key |-> <<"s", "p", "a", "i", "n">>,
      value |-> <<"S", "p", "a", "i", "n">>],
     [key |-> <<"b", "r", "a", "z", "i", "l">>,
      value |-> <<"B", "r", "a", "z", "i", "l">>],
     [key |-> <<"m", "e", "x", "i", "c", "o">>,
      value |-> <<"M", "e", "x", "i", "c", "o">>],
     [key |-> <<"r", "u", "s", "s", "i", "a">>,
      value |-> <<"R", "u", "s", "s", "i", "a">>],
     [key |-> <<"s", "o", "u", "t", "h", " ", "a", "f", "r", "i", "c", "a">>,
      value |-> <<"S", "o", "u", "t", "h", " ", "A", "f", "r", "i", "c", "a">>],
     [key |-> <<"e", "g", "y", "p", "t">>,
      value |-> <<"E", "g", "y", "p", "t">>],
     [key |-> <<"t", "u", "r", "k", "e", "y">>,
      value |-> <<"T", "u", "r", "k", "e", "y">>],
     [key |-> <<"i", "r", "a", "n">>,
      value |-> <<"I", "r", "a", "n">>],
     [key |-> <<"i", "r", "a", "q">>,
      value |-> <<"I", "r", "a", "q">>],
     [key |-> <<"a", "f", "g", "h", "a", "n", "i", "s", "t", "a", "n">>,
      value |-> <<"A", "f", "g", "h", "a", "n", "i", "s", "t", "a", "n">>],
     [key |-> <<"b", "a", "n", "g", "l", "a", "d", "e", "s", "h">>,
      value |-> <<"B", "a", "n", "g", "l", "a", "d", "e", "s", "h">>],
     [key |-> <<"s", "r", "i", " ", "l", "a", "n", "k", "a">>,
      value |-> <<"S", "r", "i", " ", "L", "a", "n", "k", "a">>],
     [key |-> <<"n", "e", "p", "a", "l">>,
      value |-> <<"N", "e", "p", "a", "l">>],
     [key |-> <<"b", "h", "u", "t", "a", "n">>,
      value |-> <<"B", "h", "u", "t", "a", "n">>],
     [key |-> <<"m", "a", "l", "d", "i", "v", "e", "s">>,
      value |-> <<"M", "a", "l", "d", "i", "v", "e", "s">>]>>

\* cityMappings['Pakistan'] of getCitySuggestion.
citiesOfPakistan ==
    <<[key |-> <<"p", "e", "s", "h">>,
      value |-> <<"P", "e", "s", "h", "a", "w", "a", "r", " ", "(", "K", "h", "y", "b", "e", "r", " ", "P", "a", "k", "h", "t", "u", "n", "k", "h", "w", "a", ")">>],
     [key |-> <<"p", "e", "s", "h", "a", "w", "a", "r">>,
      value |-> <<"P", "e", "s", "h", "a", "w", "a", "r", " ", "(", "K", "h", "y", "b", "e", "r", " ", "P", "a", "k", "h", "t", "u", "n", "k", "h", "w", "a", ")">>],
     [key |-> <<"k", "a", "r", "a", "c", "h", "i">>,
      value |-> <<"K", "a", "r", "a", "c", "h", "i", " ", "(", "S", "i", "n", "d", "h", ")">>],
     [key |-> <<"l", "a", "h", "o", "r", "e">>,
      value |-> <<"L", "a", "h", "o", "r", "e", " ", "(", "P", "u", "n", "j", "a", "b", ")">>],
     [key |-> <<"i", "s", "l", "a", "m", "a", "b", "a", "d">>,
      value |-> <<"I", "s", "l", "a", "m", "a", "b", "a", "d", " ", "(", "F", "e", "d", "e", "r", "a", "l", " ", "T", "e", "r", "r", "i", "t", "o", "r", "y", ")">>],
     [key |-> <<"r", "a", "w", "a", "l", "p", "i", "n", "d", "i">>,
      value |-> <<"R", "a", "w", "a", "l", "p", "i", "n", "d", "i", " ", "(", "P", "u", "n", "j", "a", "b", ")">>],
     [key |-> <<"f", "a", "i", "s", "a", "l", "a", "b", "a", "d">>,
      value |-> <<"F", "a", "i", "s", "a", "l", "a", "b", "a", "d", " ", "(", "P", "u", "n", "j", "a", "b", ")">>],
     [key |-> <<"m", "u", "l", "t", "a", "n">>,
      value |-> <<"M", "u", "l", "t", "a", "n", " ", "(", "P", "u", "n", "j", "a", "b", ")">>],
     [key |-> <<"q", "u", "e", "t", "t", "a">>,
      value |-> <<"Q", "u", "e", "t", "t", "a", " ", "(", "B", "a", "l", "o", "c", "h", "i", "s", "t", "a", "n", ")">>]>>

\* cityMappings['United States'].
citiesOfUnitedStates ==
    <<[key |-> <<"n", "e", "w", " ", "y", "o", "r", "k">>,
      value |-> <<"N", "e", "w", " ", "Y", "o", "r", "k", " ", "(", "N", "e", "w", " ", "Y", "o", "r", "k", ")">>],
     [key |-> <<"l", "o", "s", " ", "a", "n", "g", "e", "l", "e", "s">>,
      value |-> <<"L", "o", "s", " ", "A", "n", "g", "e", "l", "e", "s", " ", "(", "C", "a", "l", "i", "f", "o", "r", "n", "i", "a", ")">>],
     [key |-> <<"c", "h", "i", "c", "a", "g", "o">>,
      value |-> <<"C", "h", "i", "c", "a", "g", "o", " ", "(", "I", "l", "l", "i", "n", "o", "i", "s", ")">>],
     [key |-> <<"h", "o", "u", "s", "t", "o", "n">>,
      value |-> <<"H", "o", "u", "s", "t", "o", "n", " ", "(", "T", "e", "x", "a", "s", ")">>],
     [key |-> <<"p", "h", "o", "e", "n", "i", "x">>,
      value |-> <<"P", "h", "o", "e", "n", "i", "x", " ", "(", "A", "r", "i", "z", "o", "n", "a", ")">>],
     [key |-> <<"p", "h", "i", "l", "a", "d", "e", "l", "p", "h", "i", "a">>,
      value |-> <<"P", "h", "i", "l", "a", "d", "e", "l", "p", "h", "i", "a", " ", "(", "P", "e", "n", "n", "s", "y", "l", "v", "a", "n", "i", "a", ")">>],
     [key |-> <<"s", "a", "n", " ", "a", "n", "t", "o", "n", "i", "o">>,
      value |-> <<"S", "a", "n", " ", "A", "n", "t", "o", "n", "i", "o", " ", "(", "T", "e", "x", "a", "s", ")">>],
     [key |-> <<"s", "a", "n", " ", "d", "i", "e", "g", "o">>,
      value |-> <<"S", "a", "n", " ", "D", "i", "e", "g", "o", " ", "(", "C", "a", "l", "i", "f", "o", "r", "n", "i", "a", ")">>],
     [key |-> <<"d", "a", "l", "l", "a", "s">>,
      value |-> <<"D", "a", "l", "l", "a", "s", " ", "(", "T", "e", "x", "a", "s", ")">>],
     [key |-> <<"s", "a", "n", " ", "j", "o", "s", "e">>,
      value |-> <<"S", "a", "n", " ", "J", "o", "s", "e", " ", "(", "C", "a", "l", "i", "f", "o", "r", "n", "i", "a", ")">>]>>

\* cityMappings['United Kingdom'].
citiesOfUnitedKingdom ==
    <<[key |-> <<"l", "o", "n", "d", "o", "n">>,
      value |-> <<"L", "o", "n", "d", "o", "n", " ", "(", "E", "n", "g", "l", "a", "n", "d", ")">>],
     [key |-> <<"b", "i", "r", "m", "i", "n", "g", "h", "a", "m">>,
      value |-> <<"B", "i", "r", "m", "i", "n", "g", "h", "a", "m", " ", "(", "E", "n", "g", "l", "a", "n", "d", ")">>],
     [key |-> <<"m", "a", "n", "c", "h", "e", "s", "t", "e", "r">>,
      value |-> <<"M", "a", "n", "c", "h", "e", "s", "t", "e", "r", " ", "(", "E", "n", "g", "l", "a", "n", "d", ")">>],
     [key |-> <<"g", "l", "a", "s", "g", "o", "w">>,
      value |-> <<"G", "l", "a", "s", "g", "o", "w", " ", "(", "S", "c", "o", "t", "l", "a", "n", "d", ")">>],
     [key |-> <<"l", "i", "v", "e", "r", "p", "o", "o", "l">>,
      value |-> <<"L", "i", "v", "e", "r", "p", "o", "o", "l", " ", "(", "E", "n", "g", "l", "a", "n", "d", ")">>],
     [key |-> <<"l", "e", "e", "d", "s">>,
      value |-> <<"L", "e", "e", "d", "s", " ", "(", "E", "n", "g", "l", "a", "n", "d", ")">>],
     [key |-> <<"s", "h", "e", "f", "f", "i", "e", "l", "d">>,
      value |-> <<"S", "h", "e", "f", "f", "i", "e", "l", "d", " ", "(", "E", "n", "g", "l", "a", "n", "d", ")">>],
     [key |-> <<"e", "d", "i", "n", "b", "u", "r", "g", "h">>,
      value |-> <<"E", "d", "i", "n", "b", "u", "r", "g", "h", " ", "(", "S", "c", "o", "t", "l", "a", "n", "d", ")">>],
     [key |-> <<"b", "r", "i", "s", "t", "o", "l">>,
      value |-> <<"B", "r", "i", "s", "t", "o", "l", " ", "(", "E", "n", "g", "l", "a", "n", "d", ")">>],
     [key |-> <<"c", "a", "r", "d", "i", "f", "f">>,
      value |-> <<"C", "a", "r", "d", "i", "f", "f", " ", "(", "W", "a", "l", "e", "s", ")">>]>>

\* cityMappings['India'] of the fetch and the Puppeteer service.
citiesOfIndia ==
    <<[key |-> <<"m", "u", "m", "b", "a", "i">>,
      value |-> <<"M", "u", "m", "b", "a", "i", " ", "(", "M", "a", "h", "a", "r", "a", "s", "h", "t", "r", "a", ")">>],
     [key |-> <<"d", "e", "l", "h", "i">>,
      value |-> <<"D", "e", "l", "h", "i", " ", "(", "D", "e", "l", "h", "i", ")">>],
     [key |-> <<"b", "a", "n", "g", "a", "l", "o", "r", "e">>,
      value |-> <<"B", "a", "n", "g", "a", "l", "o", "r", "e", " ", "(", "K", "a", "r", "n", "a", "t", "a", "k", "a", ")">>],
     [key |-> <<"h", "y", "d", "e", "r", "a", "b", "a", "d">>,
      value |-> <<"H", "y", "d", "e", "r", "a", "b", "a", "d", " ", "(", "T", "e", "l", "a", "n", "g", "a", "n", "a", ")">>],
     [key |-> <<"c", "h", "e", "n", "n", "a", "i">>,
      value |-> <<"C", "h", "e", "n", "n", "a", "i", " ", "(", "T", "a", "m", "i", "l", " ", "N", "a", "d", "u", ")">>],
     [key |-> <<"k", "o", "l", "k", "a", "t", "a">>,
      value |-> <<"K", "o", "l", "k", "a", "t", "a", " ", "(", "W", "e", "s", "t", " ", "B", "e", "n", "g", "a", "l", ")">>],
     [key |-> <<"p", "u", "n", "e">>,
      value |-> <<"P", "u", "n", "e", " ", "(", "M", "a", "h", "a", "r", "a", "s", "h", "t", "r", "a", ")">>],
     [key |-> <<"a", "h", "m", "e", "d", "a", "b", "a", "d">>,
      value |-> <<"A", "h", "m", "e", "d", "a", "b", "a", "d", " ", "(", "G", "u", "j", "a", "r", "a", "t", ")">>],
     [key |-> <<"j", "a", "i", "p", "u", "r">>,
      value |-> <<"J", "a", "i", "p", "u", "r", " ", "(", "R", "a", "j", "a", "s", "t", "h", "a", "n", ")">>],
     [key |-> <<"l", "u", "c", "k", "n", "o", "w">>,
      value |-> <<"L", "u", "c", "k", "n", "o", "w", " ", "(", "U", "t", "t", "a", "r", " ", "P", "r", "a", "d", "e", "s", "h", ")">>]>>

\* cityMappings['India'] of the axios service.
citiesOfIndiaAxios ==
    <<[key |-> <<"m", "u", "m", "b", "a", "i">>,
      value |-> <<"M", "u", "m", "b", "a", "i", " ", "(", "M", "a", "h", "a", "r", "a", "s", "h", "t", "r", "a", ")">>],
     [key |-> <<"d", "e", "l", "h", "i">>,
      value |-> <<"D", "e", "l", "h", "i", " ", "(", "D", "e", "l", "h", "i", ")">>],
     [key |-> <<"b", "a", "n", "g", "a", "l", "o", "r", "e">>,
      value |-> <<"B", "a", "n", "g", "a", "l", "o", "r", "e", " ", "(", "K", "a", "r", "n", "a", "t", "a", "k", "a", ")">>],
     [key |-> <<"h", "y", "d", "e", "r", "a", "b", "a", "d">>,
      value |-> <<"H", "y", "d", "e", "r", "a", "b", "a", "d", " ", "(", "T", "e", "l", "a", "n", "g", "a", "n", "a", ")">>],
     [key |-> <<"a", "h", "m", "e", "d", "a", "b", "a", "d">>,
      value |-> <<"A", "h", "m", "e", "d", "a", "b", "a", "d", " ", "(", "G", "u", "j", "a", "r", "a", "t", ")">>],
     [key |-> <<"c", "h", "e", "n", "n", "a", "i">>,
      value |-> <<"C", "h", "e", "n", "n", "a", "i", " ", "(", "T", "a", "m", "i", "l", " ", "N", "a", "d", "u", ")">>],
     [key |-> <<"k", "o", "l", "k", "a", "t", "a">>,
      value |-> <<"K", "o", "l", "k", "a", "t", "a", " ", "(", "W", "e", "s", "t", " ", "B", "e", "n", "g", "a", "l", ")">>],
     [key |-> <<"s", "u", "r", "a", "t">>,
      value |-> <<"S", "u", "r", "a", "t", " ", "(", "G", "u", "j", "a", "r", "a", "t", ")">>],
     [key |-> <<"p", "u", "n", "e">>,
      value |-> <<"P", "u", "n", "e", " ", "(", "M", "a", "h", "a", "r", "a", "s", "h", "t", "r", "a", ")">>],
     [key |-> <<"j", "a", "i", "p", "u", "r">>,
      value |-> <<"J", "a", "i", "p", "u", "r", " ", "(", "R", "a", "j", "a", "s", "t", "h", "a", "n", ")">>]>>

\* timezoneMappings of the fetch and the Puppeteer service.
timezoneMappings ==
    <<[key |-> <<"P", "a", "k", "i", "s", "t", "a", "n">>,
      value |-> "Asia/Karachi"],
     [key |-> <<"P", "e", "s", "h", "a", "w", "a", "r">>,
      value |-> "Asia/Karachi"],
     [key |-> <<"K", "a", "r", "a", "c", "h", "i">>,
      value |-> "Asia/Karachi"],
     [key |-> <<"L", "a", "h", "o", "r", "e">>,
      value |-> "Asia/Karachi"],
     [key |-> <<"I", "s", "l", "a", "m", "a", "b", "a", "d">>,
      value |-> "Asia/Karachi"],
     [key |-> <<"U", "n", "i", "t", "e", "d", " ", "S", "t", "a", "t", "e", "s">>,
      value |-> "America/New_York"],
     [key |-> <<"U", "n", "i", "t", "e", "d", " ", "K", "i", "n", "g", "d", "o", "m">>,
      value |-> "Europe/London"],
     [key |-> <<"I", "n", "d", "i", "a">>,
      value |-> "Asia/Kolkata"]>>

\* timezoneMappings of the axios service.
timezoneMappingsAxios ==
    <<[key |-> <<"P", "a", "k", "i", "s", "t", "a", "n">>,
      value |-> "Asia/Karachi"],
     [key |-> <<"P", "e", "s", "h", "a", "w", "a", "r">>,
      value |-> "Asia/Karachi"],
     [key |-> <<"K", "a", "r", "a", "c", "h", "i">>,
      value |-> "Asia/Karachi"],
     [key |-> <<"L", "a", "h", "o", "r", "e">>,
      value |-> "Asia/Karachi"],
     [key |-> <<"I", "s", "l", "a", "m", "a", "b", "a", "d">>,
      value |-> "Asia/Karachi"],
     [key |-> <<"U", "n", "i", "t", "e", "d", " ", "S", "t", "a", "t", "e", "s">>,
      value |-> "America/New_York"],
     [key |-> <<"U", "n", "i", "t", "e", "d", " ", "K", "i", "n", "g", "d", "o", "m">>,
      value |-> "Europe/London"],
     [key |-> <<"I", "n", "d", "i", "a">>,
      value |-> "Asia/Kolkata"],
     [key |-> <<"N", "e", "w", " ", "Y", "o", "r", "k">>,
      value |-> "America/New_York"],
     [key |-> <<"L", "o", "s", " ", "A", "n", "g", "e", "l", "e", "s">>,
      value |-> "America/Los_Angeles"],
     [key |-> <<"C", "h", "i", "c", "a", "g", "o">>,
      value |-> "America/Chicago"],
     [key |-> <<"L", "o", "n", "d", "o", "n">>,
      value |-> "Europe/London"],
     [key |-> <<"P", "a", "r", "i", "s">>,
      value |-> "Europe/Paris"],
     [key |-> <<"T", "o", "k", "y", "o">>,
      value |-> "Asia/Tokyo"],
     [key |-> <<"S", "y", "d", "n", "e", "y">>,
      value |-> "Australia/Sydney"]>>

\* The map of MaiaMechanicsApiService.getCountryCode.
countryCodes ==
    <<[key |-> <<"P", "a", "k", "i", "s", "t", "a", "n">>,
      value |-> <<"P", "K">>],
     [key |-> <<"U", "n", "i", "t", "e", "d", " ", "S", "t", "a", "t", "e", "s">>,
      value |-> <<"U", "S">>],
     [key |-> <<"U", "S", "A">>,
      value |-> <<"U", "S">>],
     [key |-> <<"U", "n", "i", "t", "e", "d", " ", "S", "t", "a", "t", "e", "s", " ", "o", "f", " ", "A", "m", "e", "r", "i", "c", "a">>,
      value |-> <<"U", "S">>],
     [key |-> <<"U", "n", "i", "t", "e", "d", " ", "K", "i", "n", "g", "d", "o", "m">>,
      value |-> <<"G", "B">>],
     [key |-> <<"U", "K">>,
      value |-> <<"G", "B">>],
     [key |-> <<"G", "r", "e", "a", "t", " ", "B", "r", "i", "t", "a", "i", "n">>,
      value |-> <<"G", "B">>],
     [key |-> <<"C", "a", "n", "a", "d", "a">>,
      value |-> <<"C", "A">>],
     [key |-> <<"A", "u", "s", "t", "r", "a", "l", "i", "a">>,
      value |-> <<"A", "U">>],
     [key |-> <<"I", "n", "d", "i", "a">>,
      value |-> <<"I", "N">>],
     [key |-> <<"C", "h", "i", "n", "a">>,
      value |-> <<"C", "N">>],
     [key |-> <<"J", "a", "p", "a", "n">>,
      value |-> <<"J", "P">>],
     [key |-> <<"G", "e", "r", "m", "a", "n", "y">>,
      value |-> <<"D", "E">>],
     [key |-> <<"F", "r", "a", "n", "c", "e">>,
      value |-> <<"F", "R">>],
     [key |-> <<"I", "t", "a", "l", "y">>,
      value |-> <<"I", "T">>],
     [key |-> <<"S", "p", "a", "i", "n">>,
      value |-> <<"E", "S">>],
     [key |-> <<"B", "r", "a", "z", "i", "l">>,
      value |-> <<"B", "R">>],
     [key |-> <<"M", "e", "x", "i", "c", "o">>,
      value |-> <<"M", "X">>],
     [key |-> <<"R", "u", "s", "s", "i", "a">>,
      value |-> <<"R", "U">>],
     [key |-> <<"S", "o", "u", "t", "h", " ", "A", "f", "r", "i", "c", "a">>,
      value |-> <<"Z", "A">>],
     [key |-> <<"E", "g", "y", "p", "t">>,
      value |-> <<"E", "G">>],
     [key |-> <<"T", "u", "r", "k", "e", "y">>,
      value |-> <<"T", "R">>]>>

\* The map of MaiaMechanicsApiService.getTimezoneForCity.
timezonesMaia ==
    <<[key |-> <<"P", "e", "s", "h", "a", "w", "a", "r">>,
      value |-> "Asia/Karachi"],
     [key |-> <<"K", "a", "r", "a", "c", "h", "i">>,
      value |-> "Asia/Karachi"],
     [key |-> <<"L", "a", "h", "o", "r", "e">>,
      value |-> "Asia/Karachi"],
     [key |-> <<"I", "s", "l", "a", "m", "a", "b", "a", "d">>,
      value |-> "Asia/Karachi"],
     [key |-> <<"N", "e", "w", " ", "Y", "o", "r", "k">>,
      value |-> "America/New_York"],
     [key |-> <<"L", "o", "s", " ", "A", "n", "g", "e", "l", "e", "s">>,
      value |-> "America/Los_Angeles"],
     [key |-> <<"C", "h", "i", "c", "a", "g", "o">>,
      value |-> "America/Chicago"],
     [key |-> <<"L", "o", "n", "d", "o", "n">>,
      value |-> "Europe/London"],
     [key |-> <<"P", "a", "r", "i", "s">>,
      value |-> "Europe/Paris"],
     [key |-> <<"T", "o", "k", "y", "o">>,
      value |-> "Asia/Tokyo"],
     [key |-> <<"S", "y", "d", "n", "e", "y">>,
      value |-> "Australia/Sydney"]>>

\* What a scraper's normalizer returns when nothing matched: the Puppeteer
\* service capitalizes the input, the two HTTP clients return it as it is.
Unmatched(s, input) == IF s = "puppeteer" THEN Capitalized(input) ELSE input

\* The partial match of getCitySuggestion: the axios service tests
\* includes, the other two startsWith.
PartialCityMatch(s, key, input) ==
    IF s = "axios" THEN includes(key, input) \/ includes(input, key)
    ELSE startsWith(key, input) \/ startsWith(input, key)

\* A variant of getCountrySuggestion that compares the input as typed,
\* without toLowerCase.
getCountrySuggestionCaseSensitive(s, countryInput) ==
    IF s = "axios" /\ countryInput = <<>>
    THEN <<"U", "n", "i", "t", "e", "d", " ", "S", "t", "a", "t", "e", "s">>
    ELSE LET input == trim(countryInput)
             rows == 1 .. Len(countryMappings)
             exact == {i \in rows : countryMappings[i].key = input}
             partial == {i \in rows :
                            \/ startsWith(countryMappings[i].key, input)
                            \/ startsWith(input, countryMappings[i].key)}
         IN  IF exact # {} THEN countryMappings[FirstRow(exact)].value
             ELSE IF partial # {}
                  THEN countryMappings[FirstRow(partial)].value
                  ELSE Unmatched(s, countryInput)

\* getCountrySuggestion of scraper s.  Only the axios service guards
\* against an empty input.
getCountrySuggestion(s, countryInput) ==
    IF s = "axios" /\ countryInput = <<>>
    THEN <<"U", "n", "i", "t", "e", "d", " ", "S", "t", "a", "t", "e", "s">>
    ELSE LET input == trim(toLowerCase(countryInput))
             rows == 1 .. Len(countryMappings)
             exact == {i \in rows : countryMappings[i].key = input}
             partial == {i \in rows :
                            \/ startsWith(countryMappings[i].key, input)
                            \/ startsWith(input, countryMappings[i].key)}
         IN  IF exact # {} THEN countryMappings[FirstRow(exact)].value
             ELSE IF partial # {}
                  THEN countryMappings[FirstRow(partial)].value
                  ELSE Unmatched(s, countryInput)

\* cityMappings[country] of scraper s, empty for a country without table.
cityMappings(s, country) ==
    CASE country = <<"P", "a", "k", "i", "s", "t", "a", "n">> -> citiesOfPakistan
      [] country = <<"U", "n", "i", "t", "e", "d", " ", "S", "t", "a", "t", "e", "s">> -> citiesOfUnitedStates
      [] country = <<"U", "n", "i", "t", "e", "d", " ", "K", "i", "n", "g", "d", "o", "m">> -> citiesOfUnitedKingdom
      [] country = <<"I", "n", "d", "i", "a">> ->
            IF s = "axios" THEN citiesOfIndiaAxios ELSE citiesOfIndia
      [] OTHER -> <<>>

\* getCitySuggestion of scraper s.
getCitySuggestion(s, cityInput, country) ==
    IF s = "axios" /\ cityInput = <<>>
    THEN <<"N", "e", "w", " ", "Y", "o", "r", "k">>
    ELSE LET input == trim(toLowerCase(cityInput))
             cities == cityMappings(s, country)
             rows == 1 .. Len(cities)
             exact == {i \in rows : cities[i].key = input}
             partial == {i \in rows :
                            PartialCityMatch(s, cities[i].key, input)}
         IN  IF exact # {} THEN cities[FirstRow(exact)].value
             ELSE IF partial # {} THEN cities[FirstRow(partial)].value
                  ELSE Unmatched(s, cityInput)

\* The first timezone whose key the city contains, else 'UTC'.
TimezoneIn(table, city) ==
    LET hits == {i \in 1 .. Len(table) :
                    includes(toLowerCase(city), toLowerCase(table[i].key))}
    IN  IF hits # {} THEN table[FirstRow(hits)].value ELSE "UTC"

\* getTimezoneForCity of service s.
getTimezoneForCity(s, city) ==
    CASE s = "axios" -> TimezoneIn(timezoneMappingsAxios, city)
      [] s = "maia" -> TimezoneIn(timezonesMaia, city)
      [] OTHER -> TimezoneIn(timezoneMappings, city)

\* MaiaMechanicsApiService.getCountryCode(name) || name.
getCountryCode(countryName) ==
    LET exact == {i \in 1 .. Len(countryCodes) :
                     countryCodes[i].key = countryName}
    IN  IF exact # {} THEN countryCodes[FirstRow(exact)].value
        ELSE countryName

\* Country, City and Timezone as service s sends them for a BirthData with
\* the given country and city.
NormalizedLocation(s, country, city) ==
    IF s = "maia"
    THEN [country |-> getCountryCode(country), city |-> city,
          timezone |-> getTimezoneForCity(s, city)]
    ELSE LET c == getCountrySuggestion(s, country)
             y == getCitySuggestion(s, city, c)
         IN  [country |-> c, city |-> y,
              timezone |-> getTimezoneForCity(s, y)]

\* Longest country and city a client is taken to send, and the characters
\* they are made of.
MaxCountryLen == 2
MaxCityLen == 2
Alphabet == {"p", "a", "k", "u", "K", " "}

StringsUpTo(n) == UNION {[1 .. k -> Alphabet] : k \in 0 .. n}

\* A country and a city as a client writes them out.
SampleCountries == {<<"P", "A", "K", "I", "S", "T", "A", "N">>}
SampleCities == {<<"p", "e", "s", "h", "a", "w", "a", "r">>}

\* The normalizers of the four services applied to one country and city.
normalize ==
    /\ Called("normalize")
    /\ call' = Return(call, [s \in Strategies |->
                                NormalizedLocation(s, call.args.country,
                                                   call.args.city)])
    /\ ControllerUnchanged

-----------------------------------------------------------------------------
(* The HTTP requests one submitBirthData of an HTTP client sends           *)

\* How many consecutive requests the site's answers are given for.
MaxAnswers == 3

\* Whether the site answers the k-th request of a call with a page.
SiteAnswers == [1 .. MaxAnswers -> BOOLEAN]

\* JovianArchiveService / JovianArchiveFetchService.submitBirthData: one
\* GET of the form page, then one POST of the form; a request that fails
\* throws into the catch of submitBirthData.  Neither calls retry().
RequestsSent(s, answers) ==
    IF ~answers[1] THEN <<"GET">> ELSE <<"GET", "POST">>

\* The delays slept, in units of scrapingDelay: one before the POST.
DelaysSlept(s, answers) == IF ~answers[1] THEN <<>> ELSE <<1>>

\* One call of an HTTP client against a site answering as given.
httpSubmitBirthData ==
    /\ Called("httpSubmitBirthData")
    /\ call' = Return(call,
                      [sent |-> RequestsSent(call.args.client,
                                             call.args.answers),
                       delays |-> DelaysSlept(call.args.client,
                                              call.args.answers),
                       failed |-> \E i \in 1 .. 2 :
                                     i <= Len(RequestsSent(call.args.client,
                                                call.args.answers))
                                     /\ ~call.args.answers[i]])
    /\ ControllerUnchanged

-----------------------------------------------------------------------------
(* The steps of one submitBirthData of a strategy, in the order they run    *)

\* What a form page carries for the anti-forgery field: an input matched by
\* the pattern `name=".." .. value=".."` with a value or with value="", one
\* matched only by the looser second pattern of the axios client, or none.
FormPages == {"primary", "primaryEmpty", "fallback", "none"}

Token(found, value) == [found |-> found, value |-> value]

\* extractAntiForgeryToken: the axios client captures `[^"]*`, tries its
\* second pattern and ends with ''; the node-fetch client captures `[^"]+`
\* and returns null for every other page.
extractAntiForgeryToken(s, form) ==
    IF s = "axios"
    THEN CASE form = "primary" -> Token(TRUE, "t0k3n")
           [] form = "primaryEmpty" -> Token(TRUE, "")
           [] form = "fallback" -> Token(TRUE, "t0k3n")
           [] OTHER -> Token(TRUE, "")
    ELSE IF form = "primary" THEN Token(TRUE, "t0k3n") ELSE Token(FALSE, "")

\* `!token` of JovianArchiveFetchService.submitBirthData.
NotToken(token) == ~token.found \/ token.value = ""

\* The form pages and answers an HTTP client can meet in one call.
HttpSites ==
    [get : BOOLEAN, form : FormPages, post : BOOLEAN, errorPage : BOOLEAN,
     hasContainer : BOOLEAN, found : SampleCharts]

\* A variant of HttpSubmitSteps that posts the form before it has read the
\* form page.
HttpSubmitStepsPostFirst(s, site) ==
    <<"delay", "POST", "GET", "extractAntiForgeryToken">>
    \o (IF site.post THEN <<"parseChartResponse">> ELSE <<>>)

\* JovianArchiveService / JovianArchiveFetchService.submitBirthData: the
\* statements of the try block that run, a throw ending the block.
HttpSubmitSteps(s, site) ==
    IF ~site.get THEN <<"GET">>
    ELSE IF s = "fetch" /\ NotToken(extractAntiForgeryToken(s, site.form))
    THEN <<"GET", "extractAntiForgeryToken">>
    ELSE <<"GET", "extractAntiForgeryToken", "delay", "POST">>
         \o (IF site.post THEN <<"parseChartResponse">> ELSE <<>>)

\* What the call returns to the controller.
HttpSubmitOutcome(s, site) ==
    IF s = "axios"
    THEN AxiosSubmitBirthData(site.get, site.post, site.hasContainer,
                              site.found)
    ELSE FetchSubmitBirthData(site.get,
                              ~NotToken(extractAntiForgeryToken(s, site.form)),
                              site.post, site.errorPage, site.found)

\* The token the form is posted with.
PostedToken(s, site) == extractAntiForgeryToken(s, site.form)

\* One call of an HTTP client against a site.
httpSubmitSteps ==
    /\ Called("httpSubmitSteps")
    /\ call' = Return(call,
                      [steps |-> HttpSubmitSteps(call.args.client,
                                                 call.args.site),
                       token |-> PostedToken(call.args.client,
                                             call.args.site),
                       outcome |-> HttpSubmitOutcome(call.args.client,
                                                     call.args.site)])
    /\ ControllerUnchanged

\* What the calculation API can meet in one call.
MaiaSites == [token : BOOLEAN, post : BOOLEAN, data : SampleApiData]

\* MaiaMechanicsApiService.submitBirthData: the token check, then the one
\* axios.post; no delay is awaited anywhere in the service.
MaiaSubmitSteps(site) == IF ~site.token THEN <<>> ELSE <<"POST">>

\* One call of the calculation API service.
maiaSubmitSteps ==
    /\ Called("maiaSubmitSteps")
    /\ call' = Return(call,
                      [steps |-> MaiaSubmitSteps(call.args.site),
                       outcome |-> MaiaSubmitBirthData(call.args.site.token,
                                                       call.args.site.post,
                                                       call.args.site.data)])
    /\ ControllerUnchanged

-----------------------------------------------------------------------------
(* JovianArchivePuppeteerService.solveHCaptchaIfPresent                     *)

\* `for (let i = 0; i < 24; i++)` and `await this.delay(2500)`.
CaptchaPollLimit == 24
CaptchaPollDelay == 2500

\* How the solving service behaves in one call: how it answers the start
\* request, the first poll it answers with status 1 and a token (0: never),
\* the first poll whose answer cannot be read as JSON or is never received
\* (0: never), and what it answers otherwise.
Solvers ==
    [start : {"accepted", "refused", "unreadable"},
     readyAt : 0 .. CaptchaPollLimit + 1,
     unreadableAt : 0 .. CaptchaPollLimit + 1,
     otherwise : {"CAPCHA_NOT_READY", "ERROR_CAPTCHA_UNSOLVABLE"}]

\* The answer to the i-th poll.
PollAnswer(solver, i) ==
    IF i = solver.unreadableAt THEN "unreadable"
    ELSE IF i = solver.readyAt THEN "token"
    ELSE solver.otherwise

\* The poll loop from its i-th pass on: the delay, the poll, the break on
\* status 1; `fetch(..).then(r => r.json())` rejecting leaves the loop by
\* the exception.
RECURSIVE PollFrom(_, _)
PollFrom(solver, i) ==
    IF i > CaptchaPollLimit
    THEN [polls |-> i - 1, waited |-> (i - 1) * CaptchaPollDelay,
          result |-> "timeout"]
    ELSE IF PollAnswer(solver, i) = "unreadable"
    THEN [polls |-> i, waited |-> i * CaptchaPollDelay, result |-> "threw"]
    ELSE IF PollAnswer(solver, i) = "token"
    THEN [polls |-> i, waited |-> i * CaptchaPollDelay, result |-> "token"]
    ELSE PollFrom(solver, i + 1)

NoPolls(result) == [polls |-> 0, waited |-> 0, result |-> result]

\* A variant of solveHCaptchaIfPresent whose loop has no break: it polls to
\* the limit whatever the answers.
solveHCaptchaWithoutBreak(key, solver) ==
    IF ~key THEN NoPolls("skipped")
    ELSE IF solver.start # "accepted" THEN NoPolls("threw")
    ELSE [polls |-> CaptchaPollLimit,
          waited |-> CaptchaPollLimit * CaptchaPollDelay,
          result |-> IF solver.readyAt \in 1 .. CaptchaPollLimit
                     THEN "token" ELSE "timeout"]

\* solveHCaptchaIfPresent: nothing without HCAPTCHA_API_KEY; '2Captcha start
\* failed' unless the start request is accepted; then the poll loop, and
\* '2Captcha did not return a token in time' when it ends without token.
solveHCaptchaIfPresent(key, solver) ==
    IF ~key THEN NoPolls("skipped")
    ELSE IF solver.start # "accepted" THEN NoPolls("threw")
    ELSE PollFrom(solver, 1)

\* One call of the solver.
solveHCaptcha ==
    /\ Called("solveHCaptcha")
    /\ call' = Return(call, solveHCaptchaIfPresent(call.args.key,
                                                   call.args.solver))
    /\ ControllerUnchanged

-----------------------------------------------------------------------------
(* One JovianArchivePuppeteerService.submitBirthData running alone          *)

\* How many responses arrive while the listener is attached.
MaxResponses == 2

\* A response the page receives: its content type is application/json or
\* not, its status is in 200 .. 399 or not, and the body it carries.
SampleResponses ==
    [type : {"json", "html"}, ok : BOOLEAN, body : SampleJson]

RECURSIVE ResponsesUpTo(_)
ResponsesUpTo(n) ==
    IF n = 0 THEN {<<>>}
    ELSE ResponsesUpTo(n - 1)
         \cup {Append(q, a) : q \in {p \in ResponsesUpTo(n - 1) :
                                         Len(p) = n - 1},
                              a \in SampleResponses}

\* responseListener, once per response in the order of arrival: a JSON
\* response with a status below 400 replaces what this.lastCapturedJson
\* holds; every other response leaves it.
RECURSIVE responseListener(_, _)
responseListener(slot, responses) ==
    IF responses = <<>> THEN slot
    ELSE responseListener(
             IF Head(responses).type = "json" /\ Head(responses).ok
             THEN [for |-> 1, chartlike |-> Head(responses).body.chartlike,
                   props |-> Head(responses).body.props]
             ELSE slot,
             Tail(responses))

\* A variant of ParseCaptured that parses the page whatever was captured.
ParsePageOnly(last, errorPage, found) ==
    [parsed |-> "html", out |-> parseChartResponse(errorPage, FALSE, found)]

\* fillAndSubmitForm from `let chartData = null` on: the captured JSON when
\* transformCapturedJson accepts it, otherwise parseChartResponse().
ParseCaptured(last, errorPage, found) ==
    IF last # NoJson /\ ~transformCapturedJson(last).null
    THEN [parsed |-> "json", out |-> Success(transformCapturedJson(last).data)]
    ELSE [parsed |-> "html",
          out |-> parseChartResponse(errorPage, FALSE, found)]

\* The responses of one submission, then the parsing.
captureAndParse ==
    /\ Called("captureAndParse")
    /\ call' = Return(call,
                      ParseCaptured(responseListener(NoJson,
                                                     call.args.responses),
                                    call.args.errorPage, call.args.found))
    /\ ControllerUnchanged

\* What one call meets: whether the browser launches and the form page
\* loads, how the captcha solver ends, which inputs the page has (the ones
\* named Name.., the ones of the new layout, neither), whether a 'Create
\* Chart' button exists, which form is found (action="/Get_Your_Chart", one
\* holding a Name input, neither), whether the page navigates after
\* form.submit(), whether it shows validation errors, and what is parsed.
PuppeteerSites ==
    [launch : BOOLEAN, goto : BOOLEAN,
     captcha : {"skipped", "token", "timeout", "threw"},
     layout : {"legacy", "new", "none"}, button : BOOLEAN,
     form : {"chartForm", "targetForm", "none"}, navigates : BOOLEAN,
     invalid : BOOLEAN,
     last : {NoJson, [for |-> 1, chartlike |-> TRUE, props |-> 1]},
     errorPage : BOOLEAN, found : {EmptyResult, ChartResult(1, 0, 0)}]

\* A variant of navigateToFormSteps without the try around the solver.
navigateToFormStepsUncaught(site) ==
    <<"goto">>
    \o (IF ~site.goto THEN <<"throw">>
        ELSE IF site.captcha = "skipped" THEN <<>>
        ELSE IF site.captcha = "token" THEN <<"solveHCaptcha">>
        ELSE <<"solveHCaptcha", "throw">>)

\* navigateToForm: page.goto and waitForSelector throw; an error of
\* solveHCaptchaIfPresent is caught and logged.
navigateToFormSteps(site) ==
    <<"goto">>
    \o (IF ~site.goto THEN <<"throw">>
        ELSE IF site.captcha = "skipped" THEN <<>>
        ELSE <<"solveHCaptcha">>)

\* fillNewSiteForm: false when it fills no input; otherwise it clicks the
\* 'Create Chart' button it finds and waits for the navigation.
fillNewSiteFormSteps(site) ==
    <<"fill">>
    \o (IF site.layout = "none" THEN <<"throw">>
        ELSE IF site.button THEN <<"click">> ELSE <<>>)

\* fillAndSubmitForm, the submission: form.submit() on the form found; when
\* the navigation of a form found by its Name input does not come, the
\* catch clicks the 'Create Chart' button.
SubmissionSteps(site) ==
    CASE site.form = "chartForm" ->
             <<"form.submit">>
             \o (IF site.navigates THEN <<>> ELSE <<"throw">>)
      [] site.form = "targetForm" ->
             <<"form.submit">>
             \o (IF site.navigates THEN <<>>
                 ELSE IF site.button THEN <<"click">> ELSE <<>>)
      [] OTHER -> <<"throw">>

Throws(steps) == steps # <<>> /\ steps[Len(steps)] = "throw"

\* fillAndSubmitForm: the inputs, the delay, the submission, the check for
\* validation errors, the parsing.
fillAndSubmitFormSteps(site) ==
    LET fill == IF site.layout = "legacy" THEN <<"fill">>
                ELSE fillNewSiteFormSteps(site)
        submission == <<"delay">> \o SubmissionSteps(site)
    IN  IF Throws(fill) THEN fill
        ELSE IF Throws(submission) THEN fill \o submission
        ELSE IF site.invalid THEN fill \o submission \o <<"throw">>
        ELSE fill \o submission \o <<"parse">>
             \o (IF ParseCaptured(site.last, site.errorPage,
                                  site.found).out = Failure
                 THEN <<"throw">> ELSE <<>>)

\* submitBirthData: the statements of the try block that run.
PuppeteerSubmitSteps(site) ==
    LET nav == navigateToFormSteps(site)
    IN  IF ~site.launch THEN <<"launch", "throw">>
        ELSE IF Throws(nav) THEN <<"launch">> \o nav
        ELSE <<"launch">> \o nav \o fillAndSubmitFormSteps(site)

\* submitBirthData: the catch turns every throw into {success: false}.
PuppeteerSubmitOutcome(site) ==
    IF Throws(PuppeteerSubmitSteps(site)) THEN Failure
    ELSE ParseCaptured(site.last, site.errorPage, site.found).out

\* One call of the headless browser service, no other call running.
puppeteerSubmitSteps ==
    /\ Called("puppeteerSubmitSteps")
    /\ call' = Return(call,
                      [steps |-> PuppeteerSubmitSteps(call.args.site),
                       outcome |-> PuppeteerSubmitOutcome(call.args.site)])
    /\ ControllerUnchanged

-----------------------------------------------------------------------------
(* The timezone of the cities the city tables hold                          *)

\* The keys of cityMappings.
CityTableCountries ==
    {<<"P", "a", "k", "i", "s", "t", "a", "n">>,
     <<"U", "n", "i", "t", "e", "d", " ", "S", "t", "a", "t", "e", "s">>,
     <<"U", "n", "i", "t", "e", "d", " ", "K", "i", "n", "g", "d", "o", "m">>,
     <<"I", "n", "d", "i", "a">>}

\* The rows of the city table scraper s has for each country.
CityTableRows ==
    UNION {{[strategy |-> s, country |-> c, row |-> i] :
                i \in 1 .. Len(cityMappings(s, c))} :
               s \in {"puppeteer", "axios", "fetch"},
               c \in CityTableCountries}

\* The city a row of the table resolves to, and the timezone submitForm
\* computes for it.
cityTimezone ==
    /\ Called("cityTimezone")
    /\ call' = Return(call,
                      LET city == cityMappings(call.args.strategy,
                                               call.args.country)
                                      [call.args.row].value
                      IN  [city |-> city,
                           timezone |-> getTimezoneForCity(
                                            call.args.strategy, city)])
    /\ ControllerUnchanged

-----------------------------------------------------------------------------
(* ChartController.transformToReadableFormat: the planetary activations     *)

\* How many planets chart.planets holds.
MaxPlanets == 2

planetMap ==
    0 :> <<"S", "u", "n">>
    @@ 1 :> <<"E", "a", "r", "t", "h">>
    @@ 2 :> <<"M", "o", "o", "n">>
    @@ 3 :> <<"N", "o", "r", "t", "h", " ", "N", "o", "d", "e">>
    @@ 4 :> <<"S", "o", "u", "t", "h", " ", "N", "o", "d", "e">>
    @@ 5 :> <<"M", "e", "r", "c", "u", "r", "y">>
    @@ 6 :> <<"V", "e", "n", "u", "s">>
    @@ 7 :> <<"M", "a", "r", "s">>
    @@ 8 :> <<"J", "u", "p", "i", "t", "e", "r">>
    @@ 9 :> <<"S", "a", "t", "u", "r", "n">>
    @@ 10 :> <<"U", "r", "a", "n", "u", "s">>
    @@ 11 :> <<"N", "e", "p", "t", "u", "n", "e">>
    @@ 12 :> <<"P", "l", "u", "t", "o">>

\* planetMap[planet.id] || `Planet ${planet.id}`.
planetName(id) ==
    IF id \in DOMAIN planetMap THEN planetMap[id]
    ELSE <<"P", "l", "a", "n", "e", "t", " ">> \o Decimal(id)

\* The entries chart.planets may hold: a planet of the table or one outside
\* it, one- and two-digit gates, the alignment 2 and another, and the
\* activation 1 and another.
SamplePlanets ==
    [id : {0, 13}, gate : {7, 64}, line : {6}, baseAlignment : {1, 2},
     activation : {1, 2}]

RECURSIVE PlanetsUpTo(_)
PlanetsUpTo(n) ==
    IF n = 0 THEN {<<>>}
    ELSE PlanetsUpTo(n - 1)
         \cup {Append(q, a) : q \in {p \in PlanetsUpTo(n - 1) :
                                         Len(p) = n - 1},
                              a \in SamplePlanets}

\* A variant of Formatted with the two arrows exchanged.
FormattedArrowsExchanged(planet) ==
    planetName(planet.id) \o <<" ">> \o Decimal(planet.gate) \o <<".">>
    \o Decimal(planet.line) \o <<" ">>
    \o <<IF planet.baseAlignment = 2 THEN "▲" ELSE "▼">>

\* `${planetName} ${gateLine} ${arrow}` of one planet.
Formatted(planet) ==
    planetName(planet.id) \o <<" ">> \o Decimal(planet.gate) \o <<".">>
    \o Decimal(planet.line) \o <<" ">>
    \o <<IF planet.baseAlignment = 2 THEN "▼" ELSE "▲">>

\* planets.forEach(..) from the given planets on, with the two lists as
\* they are so far.
RECURSIVE forEachPlanet(_, _)
forEachPlanet(planets, lists) ==
    IF planets = <<>> THEN lists
    ELSE forEachPlanet(
             Tail(planets),
             IF Head(planets).activation = 1
             THEN [lists EXCEPT
                       !.design = Append(@, Formatted(Head(planets)))]
             ELSE [lists EXCEPT
                       !.personality = Append(@, Formatted(Head(planets)))])

\* extractPlanetaryActivations: two empty lists for what is not an array.
extractPlanetaryActivations(isArray, planets) ==
    IF ~isArray THEN [design |-> <<>>, personality |-> <<>>]
    ELSE forEachPlanet(planets, [design |-> <<>>, personality |-> <<>>])

\* What chart.planets may be: an array, or a value that is not one.
SamplePlanetLists ==
    {[isArray |-> TRUE, planets |-> p] : p \in PlanetsUpTo(MaxPlanets)}
    \cup {[isArray |-> FALSE, planets |-> <<>>]}

\* One call of extractPlanetaryActivations.
planetaryActivations ==
    /\ Called("planetaryActivations")
    /\ call' = Return(call, extractPlanetaryActivations(call.args.isArray,
                                                        call.args.planets))
    /\ ControllerUnchanged

-----------------------------------------------------------------------------
(* extractChartProperties: one list item of the properties block            *)

\* Longest text of a list item, and the characters it is made of.
MaxItemLen == 4
ItemAlphabet == {"a", "1", ":", " "}

ItemsUpTo(n) == UNION {[1 .. k -> ItemAlphabet] : k \in 0 .. n}

\* A list item as the results page shows it.
SampleItems ==
    {<<"T", "i", "m", "e", ":", " ", "1", "4", ":", "3", "0">>}

\* The position of the first colon of the text, 0 without one.
indexOfColon(text) ==
    IF \E i \in 1 .. Len(text) : text[i] = ":"
    THEN CHOOSE i \in 1 .. Len(text) :
             text[i] = ":" /\ \A j \in 1 .. i - 1 : text[j] # ":"
    ELSE 0

\* text.split(':'): the pieces between the colons.
RECURSIVE split(_)
split(text) ==
    IF indexOfColon(text) = 0 THEN <<text>>
    ELSE <<SubSeq(text, 1, indexOfColon(text) - 1)>>
         \o split(SubSeq(text, indexOfColon(text) + 1, Len(text)))

NoProperty == [matched |-> FALSE, key |-> <<>>, value |-> <<>>]

\* The list item as the extractor of service s reads it, with the key as it
\* is before it is normalized.  The axios service matches
\* /^([^:]+):\s*(.+)$/ on the trimmed text; the other two take the first
\* two pieces of text.split(':').
extractProperty(s, item) ==
    LET text == trim(item)
        colon == indexOfColon(text)
    IN  IF colon = 0 THEN NoProperty
        ELSE IF s = "axios"
        THEN IF colon = 1 \/ colon = Len(text) THEN NoProperty
             ELSE [matched |-> TRUE,
                   key |-> trim(SubSeq(text, 1, colon - 1)),
                   value |-> trim(SubSeq(text, colon + 1, Len(text)))]
        ELSE [matched |-> TRUE,
              key |-> trim(split(text)[1]),
              value |-> trim(split(text)[2])]

\* One list item read by the extractor of one service.
extractChartProperty ==
    /\ Called("extractChartProperty")
    /\ call' = Return(call, extractProperty(call.args.strategy,
                                            call.args.item))
    /\ ControllerUnchanged

-----------------------------------------------------------------------------
(* parseChartResponse of the three scrapers on one results page             *)

\* A page the site answers the submission with: where it shows a failure
\* phrase ('Oops, we have a problem', 'Something went wrong') - nowhere, in
\* its first h1, elsewhere in its text -, whether it has a
\* .chart_results_container, whether its url is /Search, and what the
\* extractors find on it.
ResultPages ==
    [phrase : {"none", "h1", "text"}, hasContainer : BOOLEAN,
     searchPage : BOOLEAN, found : SampleCharts]

\* What the strategy returns for the page.  The axios service looks for no
\* phrase; the node-fetch service searches the whole html; the Puppeteer
\* service reads the first h1 only.
ParsePage(s, p) ==
    CASE s = "axios" -> Success(AxiosParseChartResponse(p.hasContainer,
                                                        p.found))
      [] s = "fetch" -> IF p.phrase # "none" THEN Failure
                        ELSE Success(p.found)
      [] OTHER -> parseChartResponse(p.phrase = "h1", p.searchPage, p.found)

\* One results page parsed by one scraper.
parsePage ==
    /\ Called("parsePage")
    /\ call' = Return(call, ParsePage(call.args.strategy, call.args.page))
    /\ ControllerUnchanged

-----------------------------------------------------------------------------
(* closeBrowser called twice in a row on one service                        *)

\* this.browser and this.page before the calls - both null, a browser
\* without page, a browser with its page - and whether browser.close()
\* resolves in the first and in the second call.
CloseInputs ==
    [fields : {[browser |-> FALSE, page |-> FALSE],
               [browser |-> TRUE, page |-> FALSE],
               [browser |-> TRUE, page |-> TRUE]},
     first : {"resolves", "rejects"}, second : {"resolves", "rejects"}]

\* One closeBrowser awaited to its end: nothing when this.browser is null;
\* otherwise browser.close() is called, and the two fields are set to null
\* once it has resolved.
closeBrowserOnce(state, close) ==
    IF ~state.browser THEN state
    ELSE IF close = "resolves"
    THEN [state EXCEPT !.browser = FALSE, !.page = FALSE,
                       !.closeCalls = @ + 1]
    ELSE [state EXCEPT !.closeCalls = @ + 1, !.rejections = @ + 1]

\* Two calls, the second after the first has settled.
closeBrowserTwice ==
    /\ Called("closeBrowserTwice")
    /\ call' = Return(call,
                      closeBrowserOnce(
                          closeBrowserOnce(
                              [browser |-> call.args.fields.browser,
                               page |-> call.args.fields.page,
                               closeCalls |-> 0, rejections |-> 0],
                              call.args.first),
                          call.args.second))
    /\ ControllerUnchanged

-----------------------------------------------------------------------------
(* retry of the axios service: an operation tried again after a delay      *)

\* The most invocations an operation is followed through.
MaxRetries == 3

\* this.scrapingDelay of an instance: the default and one set by the
\* environment.
scrapingDelays == {100, 5000}

\* The invocations of an operation, in order: each resolves or rejects.
Operations == [1..MaxRetries -> {"resolves", "rejects"}]

\* The second argument of retry: null when none is given, or a number.
RetryCounts ==
    {[given |-> FALSE, value |-> 0]} \cup [given : {TRUE}, value : 0..MaxRetries]

\* The while loop from the value attempt has: the operation is invoked, its
\* result returned when it resolves; when it rejects attempt is incremented
\* and the error thrown once attempt has reached retries, and otherwise
\* 2^attempt * scrapingDelay is waited before the next round. invoked and of
\* number the invocations from 1; of is 0 for the error made after the loop.
RECURSIVE retryLoop(_, _, _, _, _)
retryLoop(operation, retries, scrapingDelay, attempt, delays) ==
    IF attempt < retries
    THEN IF operation[attempt + 1] = "resolves"
         THEN [kind |-> "returned", of |-> attempt + 1,
               invoked |-> attempt + 1, delays |-> delays]
         ELSE IF attempt + 1 >= retries
         THEN [kind |-> "thrown", of |-> attempt + 1,
               invoked |-> attempt + 1, delays |-> delays]
         ELSE retryLoop(operation, retries, scrapingDelay, attempt + 1,
                        Append(delays, 2 ^ (attempt + 1) * scrapingDelay))
    ELSE [kind |-> "thrown", of |-> 0, invoked |-> attempt,
          delays |-> delays]

\* retries = maxRetries || this.maxRetries: a null and a 0 both give way to
\* the instance's maxRetries.
retries(maxRetries, thisMaxRetries) ==
    IF maxRetries.given /\ maxRetries.value # 0 THEN maxRetries.value
    ELSE thisMaxRetries

retry ==
    /\ Called("retry")
    /\ call' = Return(call,
                      retryLoop(call.args.operation,
                                retries(call.args.maxRetries,
                                        call.args.thisMaxRetries),
                                call.args.scrapingDelay, 0, <<>>))
    /\ ControllerUnchanged

-----------------------------------------------------------------------------
(* The functions without side effects, each applied to one argument        *)

\* The functions applied.
Functions ==
    {"transformToReadableFormat", "route", "successResponse", "normalize",
     "httpSubmitBirthData", "httpSubmitSteps", "maiaSubmitSteps",
     "solveHCaptcha", "captureAndParse", "puppeteerSubmitSteps",
     "cityTimezone", "planetaryActivations", "extractChartProperty",
     "parsePage", "closeBrowserTwice", "retry"}

\* The arguments a function may be given.
SampleArgs(fn) ==
    CASE fn = "transformToReadableFormat" -> SampleChartFields
      [] fn = "route" -> [route : Routes, body : SampleBodies]
      [] fn = "successResponse" ->
             [source : Strategies, birthData : SampleBodies,
              meta : SampleMeta]
      [] fn = "normalize" ->
             [country : StringsUpTo(MaxCountryLen) \cup SampleCountries,
              city : StringsUpTo(MaxCityLen) \cup SampleCities]
      [] fn = "httpSubmitBirthData" ->
             [client : {"axios", "fetch"}, answers : SiteAnswers]
      [] fn = "httpSubmitSteps" ->
             [client : {"axios", "fetch"}, site : HttpSites]
      [] fn = "maiaSubmitSteps" -> [site : MaiaSites]
      [] fn = "solveHCaptcha" -> [key : BOOLEAN, solver : Solvers]
      [] fn = "captureAndParse" ->
             [responses : ResponsesUpTo(MaxResponses), errorPage : BOOLEAN,
              found : {EmptyResult, ChartResult(1, 0, 0)}]
      [] fn = "puppeteerSubmitSteps" -> [site : PuppeteerSites]
      [] fn = "cityTimezone" ->
             CityTableRows
      [] fn = "planetaryActivations" ->
             SamplePlanetLists
      [] fn = "extractChartProperty" ->
             [strategy : {"puppeteer", "axios", "fetch"},
              item : ItemsUpTo(MaxItemLen) \cup SampleItems]
      [] fn = "parsePage" ->
             [strategy : {"puppeteer", "axios", "fetch"}, page : ResultPages]
      [] fn = "closeBrowserTwice" ->
             CloseInputs
      [] fn = "retry" ->
             [operation : Operations, maxRetries : RetryCounts,
              thisMaxRetries : 1..MaxRetries, scrapingDelay : scrapingDelays]

\* One call is made, of one function with one argument.  Nothing here reads
\* the token; the service is taken without one.
InitCalls ==
    /\ Constructed
    /\ calculatorToken = FALSE
    /\ \E fn \in Functions : \E a \in SampleArgs(fn) : call = Pending(fn, a)

NextCalls ==
    \/ transformToReadableFormat
    \/ route
    \/ successResponse
    \/ normalize
    \/ httpSubmitBirthData
    \/ httpSubmitSteps
    \/ maiaSubmitSteps
    \/ solveHCaptcha
    \/ captureAndParse
    \/ puppeteerSubmitSteps
    \/ cityTimezone
    \/ planetaryActivations
    \/ extractChartProperty
    \/ parsePage
    \/ closeBrowserTwice
    \/ retry

SpecCalls == InitCalls /\ [][NextCalls]_vars

-----------------------------------------------------------------------------
(* Vocabulary of the properties                                            *)

IsPrefix(s, t) ==
    Len(s) <= Len(t) /\ \A i \in 1 .. Len(s) : s[i] = t[i]

Range(s) == {s[i] : i \in 1 .. Len(s)}

ScrapingStrategies == {"puppeteer", "axios", "fetch"}

\* A ChartResult is usable iff one of its three collections is non-empty.
Usable(d) == d.props > 0 \/ d.design > 0 \/ d.personality > 0

\* The call of s by the request with frame q has returned value out.
Returned(q, s) == s \notin q.inflight /\ q.outcome[s].kind # "none"

ReturnedUsable(q, s) ==
    /\ Returned(q, s)
    /\ q.outcome[s].kind = "success"
    /\ IF s = "maia"
       THEN q.outcome[s].data.chart /\ q.outcome[s].data.wellFormed
       ELSE Usable(q.outcome[s].data)

ReturnedEmpty(q, s) ==
    /\ Returned(q, s)
    /\ q.outcome[s].kind = "success"
    /\ IF s = "maia"
       THEN ~q.outcome[s].data.chart /\ ~q.outcome[s].data.meta
       ELSE ~Usable(q.outcome[s].data)

ReturnedFailure(q, s) == Returned(q, s) /\ q.outcome[s].kind = "failure"

-----------------------------------------------------------------------------
(* C1 .. C10                                                               *)

\* C1: for every request, POST or GET, the services called so far are a
\* prefix of the order Maia, Puppeteer, axios, fetch: none twice, none
\* skipped, the same order for every request.
C1_FixedPriorityOrder ==
    \A r \in Requests : IsPrefix(req[r].invoked, PriorityOrder)

\* A POST and a GET request that both went through all four services.
C1_Witness ==
    \E r \in Requests, o \in Requests :
        /\ req[r].method = "POST" /\ req[r].invoked = PriorityOrder
        /\ req[o].method = "GET" /\ req[o].invoked = PriorityOrder
        /\ req[r].pc = "done" /\ req[o].pc = "done"

\* C2: once a service has returned a usable result, the request is answered
\* with exactly one 200 built from that service's result, and that service
\* is the last one called.
C2_FirstUsableResultWins ==
    \A r \in Requests : \A s \in Strategies :
        ReturnedUsable(req[r], s) =>
            /\ req[r].pc = "done"
            /\ Len(req[r].responses) = 1
            /\ req[r].responses[1].status = 200
            /\ req[r].responses[1].source = s
            /\ s \in ScrapingStrategies =>
                   req[r].responses[1].data = req[r].outcome[s].data
            /\ req[r].invoked[Len(req[r].invoked)] = s

\* [Fail, Fail, Success(result)]: Maia and Puppeteer failed, axios returned
\* a usable result and the request was answered.
C2_Witness ==
    \E r \in Requests :
        /\ ReturnedFailure(req[r], "maia")
        /\ ReturnedFailure(req[r], "puppeteer")
        /\ ReturnedUsable(req[r], "axios")
        /\ req[r].pc = "done"

\* C3: a 200 built from a scraping service always carries a usable
\* ChartResult, in POST and GET alike.
C3_SuccessOnlyIfUsable ==
    \A r \in Requests : \A i \in 1 .. Len(req[r].responses) :
        (req[r].responses[i].status = 200
            /\ req[r].responses[i].source \in ScrapingStrategies)
        => Usable(req[r].responses[i].data)

\* C4: when the Puppeteer service has returned success with an empty
\* ChartResult, the handler has gone on to the axios service.
C4_EmptyBrowserResultFallsThrough ==
    \A r \in Requests :
        ReturnedEmpty(req[r], "puppeteer") => "axios" \in Range(req[r].invoked)

\* C5: when all four services have failed (the token being set, so that
\* Maia's failure is a transport error), there is exactly one response, a
\* 5xx, and it records the reason of each of the four.
C5_AggregatesFourReasons ==
    \A r \in Requests :
        (calculatorToken /\ req[r].pc = "done"
            /\ \A s \in Strategies : ReturnedFailure(req[r], s))
        => /\ Len(req[r].responses) = 1
           /\ req[r].responses[1].status >= 500
           /\ req[r].responses[1].reasons = Strategies

\* C6: a failed response is sent only after all four services were tried;
\* and when all of them returned an empty result, it records four reasons.
C6_FailureOnlyWhenExhausted ==
    \A r \in Requests :
        /\ \A i \in 1 .. Len(req[r].responses) :
              ~req[r].responses[i].success =>
                  Range(req[r].invoked) = Strategies
        /\ (req[r].pc = "done" /\ ReturnedEmpty(req[r], "maia")
                /\ ReturnedEmpty(req[r], "puppeteer"))
           => (Len(req[r].responses) = 1
                  /\ Cardinality(req[r].responses[1].reasons) = 4)

\* C7: within one request at most one service call is in flight, it is the
\* one called last, and a close() of the browser is pending only while the
\* Puppeteer call itself is still in flight.
C7_StrictlySequential ==
    \A r \in Requests :
        /\ Cardinality(req[r].inflight) <= 1
        /\ \A s \in req[r].inflight : req[r].invoked[Len(req[r].invoked)] = s
        /\ req[r].closing # Null => req[r].inflight = {"puppeteer"}

\* The axios call is in flight after a Puppeteer call that launched a
\* browser and ran its cleanup.
C7_Witness ==
    \E r \in Requests :
        /\ req[r].pc = "in_axios"
        /\ req[r].launched
        /\ req[r].inflight = {"axios"}

\* C8: a request only ever works on its own browser and its own page: the
\* browser whose close() it awaits is the one it launched, and while it is
\* between newPage and the end of fillAndSubmitForm, this.page is the page
\* it opened in that browser.
C8_NoSharedState ==
    \A r \in Requests :
        /\ req[r].closing \in {Null, r}
        /\ req[r].pc \in {"p_goto", "p_fill", "p_submit", "p_parse"}
               => page = [b |-> r, by |-> r]

\* C9: whenever a Puppeteer call that launched a browser is left (by return
\* or by exception), that browser is closed and the instance's browser and
\* page fields are null.
C9_BrowserReleasedOnExit ==
    [][\A r \in Requests :
          ("puppeteer" \in req[r].inflight /\ "puppeteer" \notin req'[r].inflight
              /\ req[r].launched)
          => (r \notin openBrowsers' /\ browser' = Null /\ page' = NullPage)]_vars

\* C10: no submitBirthData call of any service ends by throwing.
C10_StrategiesNeverThrow ==
    \A r \in Requests : \A s \in Strategies : req[r].outcome[s].kind # "threw"

-----------------------------------------------------------------------------
(* C11 .. C20                                                              *)

\* C11: when MAIA_CALCULATOR_TOKEN is absent, the service still takes
\* requests, and every Maia call that has returned gave a Failure without
\* having made any network call, after which the handler called Puppeteer.
C11_MissingTokenSkipsMaia ==
    \A r \in Requests :
        (~calculatorToken /\ Returned(req[r], "maia"))
        => /\ ReturnedFailure(req[r], "maia")
           /\ req[r].maiaPosts = 0
           /\ Len(req[r].invoked) >= 2
           /\ req[r].invoked[2] = "puppeteer"

\* Without the token a request went on past Maia and was answered with a
\* chart from a later service.
C11_Witness ==
    \E r \in Requests :
        /\ ~calculatorToken
        /\ ReturnedFailure(req[r], "maia")
        /\ req[r].maiaPosts = 0
        /\ req[r].pc = "done"
        /\ Len(req[r].responses) = 1
        /\ req[r].responses[1].status = 200

\* C12: a POST to /api/generate-chart whose body misses a field or has one
\* out of range is answered 422 'Validation failed' before any handler of
\* the controller is entered, hence before any service is called.
C12_InvalidBodyRejected ==
    (Returns("route") /\ call.args.route.method = "POST"
        /\ call.args.route.path = "/generate-chart"
        /\ ~birthDataSchema(call.args.body))
    => /\ call.out.status = 422
       /\ call.out.message = "Validation failed"
       /\ call.out.handler = "none"

\* Some key of the table equals the trimmed lower-case input, or one is a
\* prefix of the other.
PrefixEntry(table, input) ==
    \E i \in 1 .. Len(table) :
        \/ startsWith(table[i].key, trim(toLowerCase(input)))
        \/ startsWith(trim(toLowerCase(input)), table[i].key)

\* Some key of the table contains the trimmed lower-case input or is
\* contained in it.
ContainmentEntry(table, input) ==
    \E i \in 1 .. Len(table) :
        \/ includes(toLowerCase(table[i].key), trim(toLowerCase(input)))
        \/ includes(trim(toLowerCase(input)), toLowerCase(table[i].key))

\* The country (the city, the timezone) has an entry in the table service
\* s looks it up in.
CountryEntry(s, country) ==
    IF s = "maia" THEN \E i \in 1 .. Len(countryCodes) :
                          countryCodes[i].key = country
    ELSE PrefixEntry(countryMappings, country)

CityEntry(s, city, resolvedCountry) ==
    s # "maia" /\ ContainmentEntry(cityMappings(s, resolvedCountry), city)

TimezoneEntry(s, city) ==
    ContainmentEntry(CASE s = "axios" -> timezoneMappingsAxios
                       [] s = "maia" -> timezonesMaia
                       [] OTHER -> timezoneMappings, city)

\* C13: in every service, a non-empty country without table entry is sent
\* as it was given, character for character; so is a non-empty city
\* without entry; and when neither has an entry the timezone is UTC.
C13_UnmatchedPassesThrough ==
    Returns("normalize") =>
        \A s \in Strategies :
            LET c == call.args.country
                y == call.args.city
                o == call.out[s]
            IN  /\ (c # <<>> /\ ~CountryEntry(s, c)) => o.country = c
                /\ (y # <<>> /\ ~CityEntry(s, y, o.country)) => o.city = y
                /\ (c # <<>> /\ y # <<>> /\ ~CountryEntry(s, c)
                        /\ ~CityEntry(s, y, o.country)
                        /\ ~TimezoneEntry(s, y))
                   => o.timezone = "UTC"

\* C14: the birth_data of every 200 response is the BirthData of the
\* request, whichever service the response was built from.
C14_BirthDataEchoed ==
    Returns("successResponse") => call.out = call.args.birthData

\* C16: for the same non-empty country and city, the axios client and the
\* fetch client send the same Country, City and Timezone form fields.
C16_HttpClientsSendSameFields ==
    (Returns("normalize") /\ call.args.country # <<>>
        /\ call.args.city # <<>>)
    => call.out["axios"] = call.out["fetch"]

\* C15: type code 4 is rendered "Manifesting Generator", and every profile
\* number P from 10 to 99 is rendered as the digit floor(P/10), a slash and
\* the digit P mod 10; 24 becomes "2/4".
C15_TypeAndProfileRendering ==
    Returns("transformToReadableFormat") =>
        LET t == call.args.type
            pr == call.args.profile
        IN  /\ t = 4 => call.out.type = "Manifesting Generator"
            /\ (pr.isNumber /\ pr.n \in 10 .. 99) =>
                   /\ Len(call.out.profile) = 3
                   /\ call.out.profile[2] = "/"
                   /\ \E a \in 1 .. 9, b \in 0 .. 9 :
                         /\ pr.n = 10 * a + b
                         /\ call.out.profile[1] = DigitChars[a + 1]
                         /\ call.out.profile[3] = DigitChars[b + 1]
            /\ (pr.isNumber /\ pr.n = 24) =>
                   call.out.profile = <<"2", "/", "4">>

\* Type 4 with profile 24 has been rendered.
C15_Witness ==
    /\ Returns("transformToReadableFormat")
    /\ call.args.type = 4
    /\ call.args.profile = NumberProfile(24)
    /\ call.out.type = "Manifesting Generator"
    /\ call.out.profile = <<"2", "/", "4">>

\* C17: a request to the site that failed is sent again, up to three
\* times: unless it was already the third retry, a failed request is
\* followed by the same request.
C17_FailedRequestRetried ==
    Returns("httpSubmitBirthData") =>
        LET sent == call.out.sent IN
        \A i \in 1 .. Len(sent) :
            (~call.args.answers[i]
                /\ Cardinality({j \in 1 .. i : sent[j] = sent[i]}) <= 3)
            => (i < Len(sent) /\ sent[i + 1] = sent[i])

\* C18: a request whose handler has finished was sent exactly one response,
\* and no request is ever sent two.
C18_ExactlyOneResponse ==
    \A r \in Requests :
        /\ Len(req[r].responses) <= 1
        /\ req[r].pc = "done" => Len(req[r].responses) = 1

\* C19: with requests interleaved, a Puppeteer call only ever closes the
\* browser it launched, no two calls close the same browser, and once every
\* handler has finished without a close() having failed, no browser is
\* left open.
C19_BrowserClosedOnceByOwner ==
    /\ \A r \in Requests : req[r].closing # Null => req[r].closing = r
    /\ \A r \in Requests, o \in Requests :
          (r # o /\ req[r].closing # Null) => req[r].closing # req[o].closing
    /\ ((\A r \in Requests :
            req[r].pc = "done" /\ req[r].outcome["puppeteer"].kind # "threw")
        => openBrowsers = {})

\* C20: the JSON a call reads at the end of fillAndSubmitForm was captured
\* from the answer to its own form submission.
C20_CapturedJsonIsOwn ==
    \A r \in Requests :
        (req[r].pc = "p_parse" /\ lastCapturedJson # NoJson)
        => lastCapturedJson.for = r

-----------------------------------------------------------------------------
(* C21 .. C30                                                              *)

\* The steps of a call that reach the network: a request of an HTTP client
\* or of the API client, a page navigation, a form submission, a request to
\* the captcha solver.
NetworkSteps ==
    {"GET", "POST", "goto", "form.submit", "click", "solveHCaptcha"}

\* The steps that submit the birth data to the site or the API.
SubmissionStepNames == {"POST", "form.submit", "click"}

StepCalls == {"httpSubmitSteps", "maiaSubmitSteps", "puppeteerSubmitSteps"}

ReturnsSteps == call.fn \in StepCalls /\ call.done

HowMany(steps, names) ==
    Cardinality({i \in 1 .. Len(steps) : steps[i] \in names})

\* C21: in every strategy's submit, the scrapingDelay has elapsed before
\* the first step that reaches the network: no GET, POST, page navigation
\* or API call comes before the delay.
C21_DelayBeforeNetwork ==
    ReturnsSteps =>
        \A i \in 1 .. Len(call.out.steps) :
            call.out.steps[i] \in NetworkSteps
            => \E j \in 1 .. i - 1 : call.out.steps[j] = "delay"

IsProtocolStep(x) ==
    x \in {"GET", "extractAntiForgeryToken", "POST", "parseChartResponse"}

\* C22: both HTTP form clients run GET of the form page, token extraction,
\* POST, extractor in this order; the POST is sent only after the GET
\* succeeded and the extractor runs only on the body of a successful POST;
\* a failed GET or POST skips the later steps and the outcome is Failure.
C22_HttpProtocolOrder ==
    Returns("httpSubmitSteps") =>
        LET steps == call.out.steps
            site == call.args.site
        IN  /\ IsPrefix(SelectSeq(steps, IsProtocolStep),
                        <<"GET", "extractAntiForgeryToken", "POST",
                          "parseChartResponse">>)
            /\ steps # <<>> /\ steps[1] = "GET"
            /\ "POST" \in Range(steps) => site.get
            /\ "parseChartResponse" \in Range(steps)
               => (site.get /\ site.post /\ "POST" \in Range(steps))
            /\ ~site.get => (steps = <<"GET">> /\ call.out.outcome = Failure)
            /\ ("POST" \in Range(steps) /\ ~site.post)
               => /\ "parseChartResponse" \notin Range(steps)
                  /\ call.out.outcome = Failure

\* A client has run all four steps and returned a chart.
C22_Witness ==
    /\ Returns("httpSubmitSteps")
    /\ "parseChartResponse" \in Range(call.out.steps)
    /\ call.out.outcome.kind = "success"
    /\ Usable(call.out.outcome.data)

\* C23: in both HTTP form clients a form page that matches neither token
\* pattern gives the token '' and the form is still posted: the missing
\* token alone never makes the call a Failure.
C23_MissingTokenStillPosts ==
    (Returns("httpSubmitSteps") /\ call.args.site.get
     /\ call.args.site.form = "none")
    => /\ call.out.token = Token(TRUE, "")
       /\ "POST" \in Range(call.out.steps)

\* C24: one submit call of a strategy submits the form at most once: no
\* strategy repeats the submission inside a call, and the Puppeteer strategy
\* triggers at most one submission in the legacy and in the new-layout flow.
C24_AtMostOneSubmission ==
    ReturnsSteps => HowMany(call.out.steps, SubmissionStepNames) <= 1

\* C25: in the Puppeteer strategy a JSON response seen during the submission
\* whose body mentions strategy, authority or profile is the authoritative
\* payload: the result is taken from it and the HTML is not parsed.
C25_ChartJsonPreemptsHtml ==
    (Returns("captureAndParse")
     /\ \E i \in 1 .. Len(call.args.responses) :
            /\ call.args.responses[i].type = "json"
            /\ call.args.responses[i].body.chartlike)
    => call.out.parsed = "json"

\* The solver was asked and accepted the task.
Polled == Returns("solveHCaptcha") /\ call.args.key
          /\ call.args.solver.start = "accepted"

\* The polls are bounded and paced, and the loop stops at the first token.
PollsBoundedAndPaced ==
    /\ call.out.polls \in 1 .. CaptchaPollLimit
    /\ call.out.waited = call.out.polls * CaptchaPollDelay
    /\ \A i \in 1 .. call.out.polls - 1 :
           PollAnswer(call.args.solver, i) # "token"
    /\ call.out.result = "token"
       => PollAnswer(call.args.solver, call.out.polls) = "token"

CaptchaTimedOut ==
    /\ Returns("puppeteerSubmitSteps")
    /\ call.args.site.launch /\ call.args.site.goto
    /\ call.args.site.captcha = "timeout"

PAKISTAN == <<"P", "A", "K", "I", "S", "T", "A", "N">>
peshawar ==
    <<"p", "e", "s", "h", "a", "w", "a", "r">>

\* What the example is resolved to.
Pakistan == <<"P", "a", "k", "i", "s", "t", "a", "n">>
PeshawarKP ==
    <<"P", "e", "s", "h", "a", "w", "a", "r", " ", "(", "K", "h", "y", "b",
    "e", "r", " ", "P", "a", "k", "h", "t", "u", "n", "k", "h", "w", "a",
    ")">>

\* Key i of the country table and the trimmed lower-case input: one is a
\* prefix of the other.
PrefixRelated(i, input) ==
    \/ startsWith(countryMappings[i].key, trim(toLowerCase(input)))
    \/ startsWith(trim(toLowerCase(input)), countryMappings[i].key)

ContainmentRelated(table, i, input) ==
    \/ includes(table[i].key, trim(toLowerCase(input)))
    \/ includes(trim(toLowerCase(input)), table[i].key)

\* C29: in every scraper the city is looked up in the table of the resolved
\* country: a key equal to the trimmed lower-case city gives its value;
\* otherwise the first key that contains the city or is contained in it
\* gives the value; and when the resolved country has no city table the
\* city passes through as given.
C29_CityByContainment ==
    Returns("normalize") =>
        \A s \in ScrapingStrategies :
            LET y == call.args.city
                o == call.out[s]
                table == cityMappings(s, o.country)
                rows == 1 .. Len(table)
                exact == {i \in rows : table[i].key = trim(toLowerCase(y))}
            IN  y # <<>> =>
                    /\ \A i \in exact : o.city = table[i].value
                    /\ exact = {} =>
                           \A i \in rows :
                               (/\ ContainmentRelated(table, i, y)
                                /\ \A j \in 1 .. i - 1 :
                                       ~ContainmentRelated(table, j, y))
                               => o.city = table[i].value
                    /\ table = <<>> => o.city = y

\* The timezone table of scraper s.
TimezoneTableOf(s) ==
    IF s = "axios" THEN timezoneMappingsAxios ELSE timezoneMappings

\* Key i of the timezone table occurs, whatever the case, in the name.
OccursIn(table, i, name) ==
    includes(toLowerCase(name), toLowerCase(table[i].key))

\* C30: the timezone is that of the first entry of the timezone table, in
\* table order, whose key occurs in the resolved city or in the resolved
\* country, whatever the case; it is UTC only when no key occurs in either.
C30_TimezoneByCityOrCountry ==
    Returns("normalize") =>
        \A s \in ScrapingStrategies :
            LET o == call.out[s]
                table == TimezoneTableOf(s)
                rows == 1 .. Len(table)
                hits == {i \in rows : \/ OccursIn(table, i, o.city)
                                      \/ OccursIn(table, i, o.country)}
            IN  (call.args.country # <<>> /\ call.args.city # <<>>) =>
                    /\ \A i \in hits :
                           (\A j \in hits : i <= j)
                           => o.timezone = table[i].value
                    /\ o.timezone = "UTC" => hits = {}

-----------------------------------------------------------------------------
(* C31 .. C37                                                              *)

\* The timezone table's entry for a country of the city table.
TimezoneOfCountry(s, country) ==
    LET table == TimezoneTableOf(s)
    IN  table[CHOOSE i \in 1 .. Len(table) : table[i].key = country].value

\* C31: every city a city table maps to resolves to the timezone of its own
\* country, never to the UTC default: for each country of the table and
\* each of its mapped cities, getTimezoneForCity(city) is the timezone
\* table's entry for that country.
C31_MappedCityHasCountryTimezone ==
    Returns("cityTimezone") =>
        /\ call.out.timezone # "UTC"
        /\ call.out.timezone
           = TimezoneOfCountry(call.args.strategy, call.args.country)

\* The planets of the design (activation flag 1) and the others.
IsDesign(planet) == planet.activation = 1
IsPersonality(planet) == planet.activation # 1

Arrow(planet) == IF planet.baseAlignment = 2 THEN "▼" ELSE "▲"

\* entry is "{PlanetName} {gate}.{line} {arrow}" of the planet.
Renders(entry, planet) ==
    entry = planetName(planet.id)
            \o <<" ">> \o Decimal(planet.gate) \o <<".">>
            \o Decimal(planet.line) \o <<" ", Arrow(planet)>>

\* C32: for any list of planetary activation records, each record is put in
\* exactly one of the design and personality lists, design iff its
\* activation flag is 1; inside each list the order of the input is kept;
\* each entry reads "{PlanetName} {gate}.{line} {arrow}", the arrow down iff
\* the alignment flag is 2; and the two lists together have as many entries
\* as the input.
C32_ActivationsPartitioned ==
    (Returns("planetaryActivations") /\ call.args.isArray) =>
        LET d == SelectSeq(call.args.planets, IsDesign)
            p == SelectSeq(call.args.planets, IsPersonality)
        IN  /\ Len(call.out.design) = Len(d)
            /\ Len(call.out.personality) = Len(p)
            /\ \A i \in 1 .. Len(d) : Renders(call.out.design[i], d[i])
            /\ \A i \in 1 .. Len(p) : Renders(call.out.personality[i], p[i])
            /\ Len(call.out.design) + Len(call.out.personality)
               = Len(call.args.planets)

\* Two planets of the design, in different alignments, have been listed in
\* their order.
C32_Witness ==
    /\ Returns("planetaryActivations")
    /\ Len(call.out.design) = 2
    /\ call.args.planets[1].baseAlignment = 2
    /\ call.args.planets[2].baseAlignment = 1
    /\ call.args.planets[1].gate # call.args.planets[2].gate

\* C33: every HTML extractor splits a list item of the properties block on
\* its first colon only: the key is the trimmed text before the first colon
\* and the value is the whole trimmed rest after it, later colons included.
C33_SplitOnFirstColon ==
    (Returns("extractChartProperty") /\ call.out.matched) =>
        LET text == trim(call.args.item)
            colon == indexOfColon(text)
        IN  /\ call.out.key = trim(SubSeq(text, 1, colon - 1))
            /\ call.out.value = trim(SubSeq(text, colon + 1, Len(text)))

\* C34: every HTML extractor raises an error, so that the outcome of the
\* strategy is a Failure, when the text of the page contains a failure
\* phrase such as 'Something went wrong'; for such a page it never returns
\* an empty result.
C34_FailurePhraseIsFailure ==
    (Returns("parsePage") /\ call.args.page.phrase # "none")
    => call.out = Failure

\* C35: closeBrowser is idempotent: without a browser it does nothing, and
\* two calls in a row call close() on the browser exactly once and leave
\* this.browser and this.page null.
C35_CloseBrowserIdempotent ==
    Returns("closeBrowserTwice") =>
        /\ ~call.out.browser /\ ~call.out.page
        /\ call.out.closeCalls = IF call.args.fields.browser THEN 1 ELSE 0

\* C36: once the overall timeout of a request has fired, the strategy that
\* was in flight is aborted - no call of a strategy is pending for the
\* request and the browser it launched is closed -, so that nothing of the
\* request keeps running.
C36_TimeoutAbortsStrategy ==
    \A r \in timedOut :
        /\ req[r].inflight = {}
        /\ r \notin openBrowsers

\* C37: retry(operation, n) invokes the operation at most n times, n being the
\* instance's maxRetries when none is given; it returns the result of the
\* first invocation that resolves and invokes no more; after n rejections
\* it throws the error of the last invocation; and after the k-th rejection,
\* k < n, it waits 2^k * scrapingDelay before the next invocation.
C37_RetryBoundedWithBackoff ==
    Returns("retry") =>
        LET a == call.args
            n == IF a.maxRetries.given THEN a.maxRetries.value
                 ELSE a.thisMaxRetries
            resolved == {i \in 1..n : a.operation[i] = "resolves"}
            last == IF resolved = {} THEN n
                    ELSE CHOOSE i \in resolved : \A j \in resolved : i <= j
        IN  /\ call.out.invoked <= n
            /\ call.out.invoked = last
            /\ call.out.of = last
            /\ call.out.kind = IF resolved = {} THEN "thrown" ELSE "returned"
            /\ call.out.delays =
                   [k \in 1..(last - 1) |-> 2 ^ k * a.scrapingDelay]

====
